---- MODULE Spec2Model ----
(***************************************************************************)
(* Model of the image-enhancement inference server                         *)
(* (src/realesrgan/src/inference.py): batch admission, the single-image    *)
(* pipeline, the per-batch worker pool, the memoized model loader and the  *)
(* blob-transfer adapter.                                                  *)
(* With it: the model loader of the SwinIR service                         *)
(* (src/swinir2/src/inference.py) and compress_object of the compression   *)
(* lambda (src/lambda_functions/intermediate_file_compression.py).         *)
(*                                                                         *)
(* Memory readings are in MiB (the code's are in bytes; every threshold of *)
(* the code is a whole number of MiB, so the quotient is the same).        *)
(***************************************************************************)
EXTENDS Integers, Sequences, FiniteSets, TLC

VARIABLES
    \* ---- batch admission (determine_optimal_batch_size) ----
    dev,          \* the accelerator's readings the next call will see
    szLast,       \* the last call: its readings and what it returned
    szPrev,       \* the call before it
    \* ---- the inference service (predict_fn, process_batch) ----
    pc,           \* position of the calling thread
    request,      \* the request being served
    batch_size,   \* process_batch's batch_size
    subStart,     \* process_batch's loop variable i
    fstate,       \* per batch position: state of its future
    fout,         \* per batch position: what its worker produced
    faultOf,      \* per batch position: the fault its worker met
    results,      \* process_batch's results list
    response,     \* what predict_fn returned (or raised)
    \* ---- the model loader (load_model under lru_cache, model_fn) ----
    mcache,       \* the lru_cache's entries, least recently used first
    mloads,       \* per model key: how often the load routine has run
    markers,      \* model names with a marker link in MODEL_CACHE_DIR
    caller,       \* per calling thread: where it is in load_model
    mresolves,    \* load_model calls made so far
    mOverlap,     \* whether two load_model calls ever overlapped in time
    \* ---- blob transfer (download_from_s3) ----
    useCompression, \* USE_COMPRESSION, read from the environment at import
    files,        \* the local disk: path -> content
    store,        \* the object store: key -> object
    fetchLast,    \* the last download_from_s3 call and what it did
    fetchPrev,    \* the call before it (without its remote calls)
    upLast,       \* the last upload_to_s3 call and what it did
    recent,       \* the kinds of the last two transfer calls, oldest first
    transfers,    \* transfer calls made so far (counted up to MaxTransfers)
    \* ---- the SwinIR service's model loader (swinir2 model_fn) ----
    swDir,        \* the weight files present in the model directory
    swCache,      \* model_fn's lru_cache entries, least recently used first
    swLast,       \* the last model_fn call and what it returned
    \* ---- the SwinIR service's predict_fn ----
    spc,          \* where predict_fn stands
    spBatch,      \* its input_data_batch
    spFut,        \* per item: the state of its future and what the worker gave
    spResults,    \* the results list
    spResponse,   \* what predict_fn returned
    \* ---- the compression lambda (compress_object) ----
    lcStore,      \* the processed-frames bucket: key -> object
    lcLast,       \* the last compress_object call and what it did
    \* ---- the idle-endpoint shutdown lambda ----
    rpEndpoints,  \* the SageMaker endpoints: name -> status, tag, metric
    rpTable,      \* the jobs table the shutdown lambda scans, as pages of items
    rpLast,       \* the last run of the shutdown lambda and what it did
    \* ---- the intermediate-file cleanup lambda ----
    clBucket,     \* the keys of the processed-frames bucket
    clTable,      \* the jobs table the cleanup lambda scans, as pages of items
    clLast        \* the last run of the cleanup lambda and what it did

sizeVars == <<dev, szLast, szPrev>>
svcVars ==
    <<pc, request, batch_size, subStart, fstate, fout, faultOf, results, response>>
modelVars == <<mcache, mloads, markers, caller, mresolves, mOverlap>>
fetchVars ==
    <<useCompression, files, store, fetchLast, fetchPrev, upLast, recent, transfers>>
swinModelVars == <<swDir, swCache, swLast>>
swinPredictVars == <<spc, spBatch, spFut, spResults, spResponse>>
swinVars == <<swinModelVars, swinPredictVars>>
compressVars == <<lcStore, lcLast>>
reaperVars == <<rpEndpoints, rpTable, rpLast>>
cleanupVars == <<clBucket, clTable, clLast>>
lambdaVars == <<compressVars, reaperVars, cleanupVars>>
vars == <<sizeVars, svcVars, modelVars, fetchVars, swinVars, lambdaVars>>

Min(a, b) == IF a <= b THEN a ELSE b
Max(a, b) == IF a >= b THEN a ELSE b

\* Python's int(x / d) for d > 0: truncation toward zero.
IntTrunc(n, d) == IF n >= 0 THEN n \div d ELSE -((-n) \div d)

(***************************************************************************)
(* determine_optimal_batch_size                                            *)
(***************************************************************************)
MEMORY_PER_IMAGE == 500
MAX_BATCH_SIZE == 16
DEFAULT_BATCH_SIZE == 4
CPU_BATCH_SIZE == 4

\* A reading is a number, a non-numeric value (None), or the call raises.
Num(n) == [kind |-> "num", val |-> n]
NoneReading == [kind |-> "none", val |-> 0]
RaiseReading == [kind |-> "raise", val |-> 0]

\* free_memory = memory_reserved(0) - memory_allocated(0)
FreeMemoryOfCode(d) == d.reserved.val - d.allocated.val

\* max(1, int(free_memory * 0.8 / memory_per_image)), then min(., 16)
CalculatedBatchSize(free) ==
    Min(Max(1, IntTrunc(free * 8, 10 * MEMORY_PER_IMAGE)), MAX_BATCH_SIZE)

\* Whether the body of the try block raises: a torch call raises, or the
\* subtraction meets a non-numeric operand. gpu_memory is read and not used.
SizingRaises(d) ==
    \/ d.available = "raise"
    \/ /\ d.available = "yes"
       /\ \/ d.total.kind = "raise"
          \/ d.reserved.kind = "raise"
          \/ d.allocated.kind = "raise"
          \/ d.reserved.kind = "none"
          \/ d.allocated.kind = "none"

DetermineOptimalBatchSize(d) ==
    IF SizingRaises(d) THEN DEFAULT_BATCH_SIZE
    ELSE IF d.available = "yes" THEN CalculatedBatchSize(FreeMemoryOfCode(d))
    ELSE CPU_BATCH_SIZE

(***************************************************************************)
(* process_single_image                                                    *)
(***************************************************************************)
AUTO_TILE_THRESHOLD == 1500
AUTO_TILE_SIZE == 1024
NoTile == -1

\* What the environment can make fail while one image is processed.
Faults == {"none", "download", "decode", "inference", "encode", "upload", "copy"}

\* tile_size = input_data.get('tile_size', 0), then the automatic tiling rule
RequestedTile(input) == IF input.tile_present THEN input.tile_size ELSE 0

\* Variant: the failure dict carries no batch_id.
FailedResultNoBatchId(input, stage) ==
    [status |-> 500, error |-> stage, job_id |-> input.job_id,
     batch_id |-> -1, output_file_path |-> "absent"]

\* Variant: the automatic tiling rule looks at the smaller dimension.
TileSizeOfMinDim(input) ==
    IF RequestedTile(input) = 0
       /\ Min(input.height, input.width) > AUTO_TILE_THRESHOLD
    THEN AUTO_TILE_SIZE
    ELSE RequestedTile(input)

TileSize(input) ==
    IF RequestedTile(input) = 0
       /\ Max(input.height, input.width) > AUTO_TILE_THRESHOLD
    THEN AUTO_TILE_SIZE
    ELSE RequestedTile(input)

\* The model selected and the tile size handed to its enhance().
EnhancerCall(input) ==
    IF input.face_enhanced = "yes"
    THEN [model |-> "face_enhancer", tile |-> NoTile]
    ELSE [model |-> IF input.is_anime \in {"yes", "true"}
                    THEN "realesr_gan_anime" ELSE "realesr_gan",
          tile |-> TileSize(input)]

NoCall == [model |-> "none", tile |-> NoTile]

\* The stage at which the image fails under the environment's fault: a fault
\* of a stage the request does not run (download of a local input, upload to
\* a local output, copy onto the cache path itself) has no effect.
FailsAt(input, fault) ==
    CASE fault = "download" /\ input.s3_in -> "download"
      [] fault \in {"decode", "inference", "encode"} -> fault
      [] fault = "upload" /\ input.out_kind = "s3" -> "upload"
      [] fault = "copy" /\ input.out_kind = "local" -> "copy"
      [] OTHER -> "none"

FailedResult(input, stage) ==
    [status |-> 500, error |-> stage, job_id |-> input.job_id,
     batch_id |-> input.batch_id, output_file_path |-> "absent"]

OkResult(input) ==
    [status |-> 200, error |-> "absent", job_id |-> input.job_id,
     batch_id |-> input.batch_id, output_file_path |-> input.out_kind]

NoResult ==
    [status |-> 0, error |-> "absent", job_id |-> "absent",
     batch_id |-> -1, output_file_path |-> "absent"]

\* The outcome of one call: it raises KeyError when a path key is missing
\* (the reads at the top are outside every try), and otherwise returns the
\* dict of the first failing stage or the success dict. enhance is the call
\* made on the model, when the pipeline got that far.
ProcessSingleImage(input, fault) ==
    IF ~input.has_paths
    THEN [raised |-> TRUE, ret |-> NoResult, enhance |-> NoCall]
    ELSE LET stage == FailsAt(input, fault) IN
         [raised |-> FALSE,
          ret |-> IF stage = "none" THEN OkResult(input)
                  ELSE FailedResult(input, stage),
          enhance |-> IF stage \in {"download", "decode"} THEN NoCall
                      ELSE EnhancerCall(input)]

NoOutcome == [raised |-> FALSE, ret |-> NoResult, enhance |-> NoCall]

\* The fault a call meets: a call that raises at its first lines reaches no
\* stage, so the environment's fault never comes up.
FaultMet(input, fault) == IF input.has_paths THEN fault ELSE "none"

\* local_input_path and local_output_path: IMAGE_CACHE_DIR joined with the
\* base name of input_file_path (the folder part is dropped).
\* input_file_path of an item that names its file: s3://bucket/<folder>/<name>
InputUriName(input) == input.folder \o "/" \o input.name

LocalInputPath(input) == "cache/" \o input.name
LocalOutputPath(input) == "cache/" \o input.name \o "_upscaled"

\* The cache files a worker writes or reads while it processes the item:
\* the downloaded input (for an s3 input) and the output image.
CacheFilesOf(input) ==
    (IF input.s3_in THEN {LocalInputPath(input)} ELSE {})
    \cup {LocalOutputPath(input)}

(***************************************************************************)
(* process_batch                                                           *)
(***************************************************************************)
MAX_CONCURRENCY == 10
MaxBatch == 3

\* batch_data.get('job_id', 'batch_job')
BatchJobId(req) == IF req.job_present THEN req.job_id ELSE "batch_job"

\* {**item, 'job_id': job_id, 'batch_id': idx + i}
WithIds(item, job, bid) == [item EXCEPT !.job_id = job, !.batch_id = bid]

NumItems == Len(request.batch)

\* Variant: the slice is one short, batch_items[i:i+batch_size-1].
SubBatchOneShort == (subStart + 1) .. Min(subStart + batch_size - 1, NumItems)

\* Variant: the slice runs to the end of the batch, batch_items[i:].
SubBatchToEnd == (subStart + 1) .. NumItems

\* Positions (1-based) of batch_items[i:i+batch_size]; batch_id = position - 1
SubBatch == (subStart + 1) .. Min(subStart + batch_size, NumItems)

\* The dict appended when future.result() raises.
WorkerErrorResult(job, bid) ==
    [status |-> 500, error |-> "exception", job_id |-> job,
     batch_id |-> bid, output_file_path |-> "absent"]

\* Variant: the item is given idx, its index in the sub-batch, as batch_id.
BatchIdInSubBatch(k) == k - 1 - subStart

\* What the as_completed loop appends for the future at position k.
\* idx + i for the item at position k of the batch: idx is its index in the
\* sub-batch, i the sub-batch's start.
BatchIdOf(k) == (k - 1 - subStart) + subStart

\* Variant: the except branch reports idx, the index in the sub-batch.
CollectedResultWithIdx(k) ==
    IF fout[k].raised
    THEN WorkerErrorResult(BatchJobId(request), k - 1 - subStart)
    ELSE fout[k].ret

CollectedResult(k) ==
    IF fout[k].raised
    THEN WorkerErrorResult(BatchJobId(request), BatchIdOf(k))
    ELSE fout[k].ret

\* Variant: the batch reports failure when one of its items failed.
BatchResponseFailing ==
    [raised |-> FALSE,
     result |-> [status |-> IF \E j \in 1..Len(results) : results[j].status = 500
                            THEN 500 ELSE 200,
                 batch_results |-> results,
                 job_id |-> BatchJobId(request),
                 total_processed |-> Len(results)]]

BatchResponse ==
    [raised |-> FALSE,
     result |-> [status |-> 200, batch_results |-> results,
                 job_id |-> BatchJobId(request),
                 total_processed |-> Len(results)]]

\* Variant: the executor gets max_workers = batch_size.
MaxWorkersUncapped == batch_size

\* max_workers of the executor of a sub-batch.
MaxWorkers == Min(batch_size, MAX_CONCURRENCY)

Running == {k \in 1..NumItems : fstate[k] = "running"}
Queued == {k \in 1..NumItems : fstate[k] = "queued"}

(***************************************************************************)
(* load_model (memoized by lru_cache) and model_fn                         *)
(***************************************************************************)
LRU_MAXSIZE == 1
MaxCallers == 2
MaxResolves == 4

\* (model_name, model_path, model_type) of model_fn's two calls, and a key
\* whose model_type load_model does not know.
ModelKeys == {"standard", "anime", "unknown"}
\* Variant: every model_type is taken for a known one.
KnownTypeAny(key) == key \in ModelKeys

KnownType(key) == key \in {"standard", "anime"}
Callers == 1..MaxCallers

CachedKeys == {mcache[i].key : i \in 1..Len(mcache)}
CachedHandle(key) ==
    (CHOOSE e \in {mcache[i] : i \in 1..Len(mcache)} : e.key = key).handle

RECURSIVE Without(_, _)
Without(q, key) ==
    IF q = <<>> THEN <<>>
    ELSE IF Head(q).key = key THEN Without(Tail(q), key)
    ELSE <<Head(q)>> \o Without(Tail(q), key)

\* A cache hit moves the entry to the most recently used end.
Touched(q, key) == Append(Without(q, key), [key |-> key, handle |-> CachedHandle(key)])

\* The wrapper's bookkeeping after the wrapped call returned: the key may
\* have been added meanwhile by another caller (nothing to do), else the
\* oldest entry makes room when the cache is full.
Inserted(q, key, handle) ==
    IF key \in {q[i].key : i \in 1..Len(q)} THEN q
    ELSE IF Len(q) >= LRU_MAXSIZE
         THEN Append(Tail(q), [key |-> key, handle |-> handle])
         ELSE Append(q, [key |-> key, handle |-> handle])

NoHandle == [key |-> "none", n |-> 0]
IdleCaller == [pc |-> "idle", todo |-> <<>>, got |-> <<>>, handle |-> NoHandle]
InCall(c) == c.pc \in {"lookup", "loading", "store"}

ModelInit ==
    /\ mcache = <<>>
    /\ mloads = [k \in ModelKeys |-> 0]
    /\ markers = {}
    /\ caller = [t \in Callers |-> IdleCaller]
    /\ mresolves = 0
    /\ mOverlap = FALSE

(***************************************************************************)
(* download_from_s3                                                        *)
(***************************************************************************)
MULTIPART_THRESHOLD == 100
MaxTransfers == 2

\* A URI is an s3:// URI naming a key, or a bare local path.
S3Uri(k) == [s3 |-> TRUE, name |-> k]
LocalUri(p) == [s3 |-> FALSE, name |-> p]

\* Object keys: a name and the number of ".gz" suffixes after it.
Key(name) == [name |-> name, gz |-> 0]
\* compressed_key = f"{key}.gz"
CompressedKey(k) == [k EXCEPT !.gz = @ + 1]

AbsentObject == [present |-> FALSE, size |-> 0, enc |-> "none", data |-> "none"]

\* One remote call as the transport sees it.
Op(call, k, multipart) == [call |-> call, key |-> k, multipart |-> multipart]

Ret(v) == [kind |-> "return", value |-> v]
Raise(e) == [kind |-> "raise", value |-> e]

\* s3_client.download_file(bucket, key, local_path[, Config]) and what
\* follows it. The transfer writes a temporary file and renames it when
\* complete, so a failed transfer leaves the local path as it was.
RegularDownload(k, lp, size, env, fs, st, ops) ==
    LET op == Op("download_file", k, size > MULTIPART_THRESHOLD) IN
    IF env.download = "other"
    THEN [ret |-> Raise("Exception"), ops |-> Append(ops, op), files |-> fs]
    ELSE IF env.download = "client" \/ ~st[k].present
    THEN [ret |-> Raise("ClientError"), ops |-> Append(ops, op), files |-> fs]
    ELSE [ret |-> Ret(lp), ops |-> Append(ops, op),
          files |-> [fs EXCEPT ![lp] = st[k].data]]

\* Variant: the compressed sibling is never looked for.
CompressedDownloadNoProbe(k, lp, size, env, fs, st, ops) ==
    RegularDownload(k, lp, size, env, fs, st, ops)

\* The USE_COMPRESSION branch: probe key + ".gz"; when it is there, open the
\* local file for writing, get the object and write its gunzipped bytes; any
\* ClientError on the way falls back to the regular download.
CompressedDownload(k, lp, size, env, fs, st, ops) ==
    LET gz == CompressedKey(k)
        probe == Append(ops, Op("head_object", gz, FALSE))
        opened == [fs EXCEPT ![lp] = "empty"]
        got == Append(probe, Op("get_object", gz, FALSE))
    IN
    IF env.head_gz = "other"
    THEN [ret |-> Raise("Exception"), ops |-> probe, files |-> fs]
    ELSE IF env.head_gz = "client" \/ ~st[gz].present
    THEN RegularDownload(k, lp, size, env, fs, st, probe)
    ELSE IF env.get = "other"
    THEN [ret |-> Raise("Exception"), ops |-> got, files |-> opened]
    ELSE IF env.get = "client"
    THEN RegularDownload(k, lp, size, env, opened, st, got)
    ELSE IF st[gz].enc # "gzip"
    THEN [ret |-> Raise("Exception"), ops |-> got, files |-> opened]
    ELSE [ret |-> Ret(lp), ops |-> got,
          files |-> [fs EXCEPT ![lp] = st[gz].data]]

\* download_from_s3 past its cache check, under the environment's faults
\* env (per remote call: "ok", "client" for a ClientError, "other" for any
\* other exception), on local disk fs and object store st.
DownloadUncached(uri, lp, env, compression, fs, st) ==
    IF ~uri.s3
    THEN [ret |-> Ret(uri.name), ops |-> <<>>, files |-> fs]
    ELSE LET k == Key(uri.name)
             head == <<Op("head_object", k, FALSE)>>
             size == IF env.head = "client" \/ ~st[k].present
                     THEN 0 ELSE st[k].size
         IN
         IF env.head = "other"
         THEN [ret |-> Raise("Exception"), ops |-> head, files |-> fs]
         ELSE IF compression
         THEN CompressedDownload(k, lp, size, env, fs, st, head)
         ELSE RegularDownload(k, lp, size, env, fs, st, head)

\* Variant: the cache check tests a path that never exists.
DownloadFromS3Unchecked(uri, lp, env, compression, fs, st) ==
    DownloadUncached(uri, lp, env, compression, fs, st)

\* download_from_s3(s3_uri, local_path): a local path that exists is
\* returned as it is.
DownloadFromS3(uri, lp, env, compression, fs, st) ==
    IF fs[lp] # "absent"
    THEN [ret |-> Ret(lp), ops |-> <<>>, files |-> fs]
    ELSE DownloadUncached(uri, lp, env, compression, fs, st)

\* The calls of a download on which the environment injected a fault.
FaultsMet(ops, env, k) ==
    {c \in {"head", "head_gz", "get", "download"} :
        /\ env[c] # "ok"
        /\ \E i \in 1..Len(ops) :
              CASE c = "head" -> ops[i].call = "head_object" /\ ops[i].key = k
                [] c = "head_gz" -> ops[i].call = "head_object" /\ ops[i].key # k
                [] c = "get" -> ops[i].call = "get_object"
                [] OTHER -> ops[i].call = "download_file"}

(***************************************************************************)
(* upload_to_s3                                                            *)
(***************************************************************************)
\* What a file can hold: the bytes of an image (or none), and their gzip
\* stream, which gunzip turns back into the bytes it was made from.
Contents == {"empty", "A", "B"}
GzipOf(c) == "gz:" \o c
IsGzip(c) == \E d \in Contents : GzipOf(d) = c
GunzipOf(c) == CHOOSE d \in Contents : GzipOf(d) = c

\* compressed_path = f"{local_path}.gz"
GzPath(p) == p \o ".gz"

\* os.path.getsize(local_path): nothing for no bytes, else at the multipart
\* threshold or just above it.
FileSize(c, big) ==
    IF c = "empty" THEN 0
    ELSE IF big THEN MULTIPART_THRESHOLD + 1 ELSE MULTIPART_THRESHOLD

\* The object that upload_file makes of a local file.
ObjectOfFile(c, size) ==
    IF IsGzip(c)
    THEN [present |-> TRUE, size |-> 1, enc |-> "gzip", data |-> GunzipOf(c)]
    ELSE [present |-> TRUE, size |-> size, enc |-> "plain", data |-> c]

UploadError(fault) ==
    Raise(IF fault = "client" THEN "ClientError" ELSE "Exception")

\* s3_client.upload_file(local_path, bucket, key[, Config]) and the return
\* after it. A failed upload leaves the object store as it was.
PlainUpload(k, lp, uri, size, env, fs, st, ops) ==
    LET op == Op("upload_file", k, size > MULTIPART_THRESHOLD) IN
    IF env.upload # "ok"
    THEN [ret |-> UploadError(env.upload), ops |-> Append(ops, op),
          files |-> fs, store |-> st]
    ELSE [ret |-> Ret(uri.name), ops |-> Append(ops, op), files |-> fs,
          store |-> [st EXCEPT ![k] = ObjectOfFile(fs[lp], size)]]

\* Variant: only the original is uploaded.
CompressedUploadNoSibling(k, lp, uri, size, env, fs, st) ==
    PlainUpload(k, lp, uri, size, env, fs, st, <<>>)

\* The USE_COMPRESSION branch: gzip the file into local_path + ".gz",
\* upload that under key + ".gz", remove it, then upload the original.
\* gzip.open may fail before it creates the file ("open") or the writing
\* may fail after ("write").
CompressedUpload(k, lp, uri, size, env, fs, st) ==
    LET gzp == GzPath(lp)
        gz == CompressedKey(k)
        packed == [fs EXCEPT ![gzp] = GzipOf(fs[lp])]
        op == Op("upload_file", gz, size > MULTIPART_THRESHOLD)
    IN
    IF env.compress = "open"
    THEN [ret |-> Raise("Exception"), ops |-> <<>>, files |-> fs, store |-> st]
    ELSE IF env.compress = "write"
    THEN [ret |-> Raise("Exception"), ops |-> <<>>,
          files |-> [fs EXCEPT ![gzp] = "partial"], store |-> st]
    ELSE IF env.upload_gz # "ok"
    THEN [ret |-> UploadError(env.upload_gz), ops |-> <<op>>,
          files |-> packed, store |-> st]
    ELSE PlainUpload(k, lp, uri, size, env,
                     [packed EXCEPT ![gzp] = "absent"],
                     [st EXCEPT ![gz] = ObjectOfFile(packed[gzp], size)],
                     <<op>>)

\* upload_to_s3(local_path, s3_uri), the file being above the multipart
\* threshold or not (big).
UploadToS3(lp, uri, big, env, compression, fs, st) ==
    IF ~uri.s3
    THEN [ret |-> Ret(lp), ops |-> <<>>, files |-> fs, store |-> st]
    ELSE IF fs[lp] = "absent"
    THEN [ret |-> Raise("Exception"), ops |-> <<>>, files |-> fs, store |-> st]
    ELSE IF compression
    THEN CompressedUpload(Key(uri.name), lp, uri, FileSize(fs[lp], big), env, fs, st)
    ELSE PlainUpload(Key(uri.name), lp, uri, FileSize(fs[lp], big), env, fs, st, <<>>)

(***************************************************************************)
(* model_fn of the SwinIR service (memoized by lru_cache)                  *)
(***************************************************************************)
SWIN_LRU_MAXSIZE == 5
DEFAULT_MODEL_VARIANT == "real_sr"

\* MODEL_VARIANTS: the keys, and the scale of each; a variant's weight file
\* is named by the variant.
SwinVariants == {"real_sr", "classical_sr", "lightweight_sr", "color_dn", "jpeg_car"}
ScaleOf(v) == IF v \in {"color_dn", "jpeg_car"} THEN 1 ELSE 4

\* Variant: a known variant is kept whether its weight file is there or not.
LoadedVariantUnchecked(arg, dir) ==
    IF arg = "None" \/ arg \notin SwinVariants THEN DEFAULT_MODEL_VARIANT ELSE arg

\* The variant model_fn decides to load: the default for no or an unknown
\* variant, and for a variant whose weight file is not in the directory.
LoadedVariant(arg, dir) ==
    LET v == IF arg = "None" \/ arg \notin SwinVariants
             THEN DEFAULT_MODEL_VARIANT ELSE arg
    IN IF v \in dir THEN v ELSE DEFAULT_MODEL_VARIANT

NoModel == [variant |-> "none", scale |-> 0, file |-> "none"]

\* define_model(model_path, model_variant, model_scale), .to(device) and
\* .eval(): reading a weight file that is not there raises.
DefineModel(file, v, scale, dir) ==
    IF file \in dir
    THEN [raised |-> FALSE, model |-> [variant |-> v, scale |-> scale, file |-> file]]
    ELSE [raised |-> TRUE, model |-> NoModel]

\* The body of model_fn.
SwinModelFnBody(arg, dir) ==
    LET v == LoadedVariant(arg, dir) IN DefineModel(v, v, ScaleOf(v), dir)

SwCachedKeys == {swCache[i].key : i \in 1..Len(swCache)}
SwCached(key) ==
    (CHOOSE e \in {swCache[i] : i \in 1..Len(swCache)} : e.key = key).model

\* The lru_cache after a miss on key whose call returned model: the oldest
\* entry makes room when the cache is full.
SwInserted(q, key, model) ==
    IF Len(q) >= SWIN_LRU_MAXSIZE
    THEN Append(Tail(q), [key |-> key, model |-> model])
    ELSE Append(q, [key |-> key, model |-> model])

\* The lru_cache after a hit on key.
SwTouched(q, key) ==
    Append(SelectSeq(q, LAMBDA e : e.key # key), [key |-> key, model |-> SwCached(key)])

NoSwinCall == [called |-> FALSE, arg |-> "None", hit |-> FALSE, raised |-> FALSE,
               model |-> NoModel]

(***************************************************************************)
(* predict_fn and process_single_image of the SwinIR service               *)
(***************************************************************************)
SWIN_MAX_WORKERS == 4
MaxSwinBatch == 3

SwinFaults == {"none", "download", "read", "process", "save", "upload"}

\* process_single_image(input_item, model) of the SwinIR service: a missing
\* key raises at the first lines; a stage that fails is answered with a
\* status-500 dict carrying the item's ids.
SwinProcessSingleImage(item, fault) ==
    IF ~item.has_keys
    THEN [raised |-> TRUE, status |-> 500, job_id |-> "none", batch_id |-> "none"]
    ELSE [raised |-> FALSE, status |-> IF fault = "none" THEN 200 ELSE 500,
          job_id |-> item.job_id, batch_id |-> item.batch_id]

\* The dict appended when future.result() raises.
SwinWorkerError(item) ==
    [raised |-> FALSE, status |-> 500,
     job_id |-> IF item.has_keys THEN item.job_id ELSE "unknown",
     batch_id |-> IF item.has_keys THEN item.batch_id ELSE "unknown"]

\* The one-element list returned by the outer except of predict_fn.
SwinBatchError ==
    <<[raised |-> FALSE, status |-> 500, job_id |-> "batch", batch_id |-> "batch"]>>

\* What the as_completed loop appends for the future at position k.
SwinCollected(k) ==
    IF spFut[k].out.raised THEN SwinWorkerError(spBatch[k]) ELSE spFut[k].out

SwinPoolSize == Min(Len(spBatch), SWIN_MAX_WORKERS)
SwinRunning == {k \in 1..Len(spBatch) : spFut[k].state = "running"}
SwinQueued == {k \in 1..Len(spBatch) : spFut[k].state = "queued"}

NoSwinFuture ==
    [state |-> "none",
     out |-> [raised |-> FALSE, status |-> 0, job_id |-> "none", batch_id |-> "none"]]
NoSwinResponse == [raised |-> FALSE, kind |-> "none", value |-> <<>>]

SwinPredictIdle ==
    /\ spc = "idle"
    /\ spBatch = <<>>
    /\ spFut = <<>>
    /\ spResults = <<>>
    /\ spResponse = NoSwinResponse

SwinIdle ==
    /\ swDir = {}
    /\ swCache = <<>>
    /\ swLast = NoSwinCall
    /\ SwinPredictIdle

(***************************************************************************)
(* compress_object of the compression lambda                               *)
(***************************************************************************)
\* The steps of compress_object that can raise.
CompressSteps == <<"download", "compress", "upload", "delete">>

\* One call on the bucket.
BucketOp(call, k) == [call |-> call, key |-> k]

\* Variant: the original is deleted before the compressed file is uploaded.
CompressObjectDeleteFirst(k, fault, st) ==
    LET gz == CompressedKey(k)
        dl == BucketOp("download_file", k)
        up == BucketOp("upload_file", gz)
        del == BucketOp("delete_object", k)
        gone == [st EXCEPT ![k] = AbsentObject]
    IN
    IF fault = "download" \/ ~st[k].present
    THEN [ret |-> FALSE, ops |-> <<dl>>, store |-> st, failed |-> "download"]
    ELSE IF fault = "compress"
    THEN [ret |-> FALSE, ops |-> <<dl>>, store |-> st, failed |-> "compress"]
    ELSE IF fault = "delete"
    THEN [ret |-> FALSE, ops |-> <<dl, del>>, store |-> st, failed |-> "delete"]
    ELSE IF fault = "upload"
    THEN [ret |-> FALSE, ops |-> <<dl, del, up>>, store |-> gone, failed |-> "upload"]
    ELSE [ret |-> TRUE, ops |-> <<dl, del, up>>, failed |-> "none",
          store |-> [gone EXCEPT ![gz] = ObjectOfFile(GzipOf(st[k].data), 1)]]

\* compress_object(s3_client, obj_key) on bucket st, the environment making
\* one step raise or none: download the object into a temporary directory,
\* gzip it, upload the result under obj_key + ".gz", delete the original;
\* any exception ends the call with False.
CompressObject(k, fault, st) ==
    LET gz == CompressedKey(k)
        dl == BucketOp("download_file", k)
        up == BucketOp("upload_file", gz)
        del == BucketOp("delete_object", k)
        packed == [st EXCEPT ![gz] = ObjectOfFile(GzipOf(st[k].data), 1)]
    IN
    IF fault = "download" \/ ~st[k].present
    THEN [ret |-> FALSE, ops |-> <<dl>>, store |-> st, failed |-> "download"]
    ELSE IF fault = "compress"
    THEN [ret |-> FALSE, ops |-> <<dl>>, store |-> st, failed |-> "compress"]
    ELSE IF fault = "upload"
    THEN [ret |-> FALSE, ops |-> <<dl, up>>, store |-> st, failed |-> "upload"]
    ELSE IF fault = "delete"
    THEN [ret |-> FALSE, ops |-> <<dl, up, del>>, store |-> packed,
          failed |-> "delete"]
    ELSE [ret |-> TRUE, ops |-> <<dl, up, del>>, failed |-> "none",
          store |-> [packed EXCEPT ![k] = AbsentObject]]

NoCompressCall == [called |-> FALSE, key |-> Key("none"), ret |-> FALSE, ops |-> <<>>,
                   failed |-> "none", before |-> AbsentObject]

CompressIdle ==
    /\ lcStore = <<>>
    /\ lcLast = NoCompressCall

(***************************************************************************)
(* lambda_handler of the idle-endpoint shutdown lambda                     *)
(***************************************************************************)
IDLE_THRESHOLD_INVOCATIONS == 5
EXCLUDE_TAG_VALUE == "true"
ACTIVE_JOB_STATUSES == {"PROCESSING", "INITIATED"}

RECURSIVE SumOf(_)
SumOf(s) == IF s = <<>> THEN 0 ELSE Head(s) + SumOf(Tail(s))

\* What one scan call returns of a table kept as a sequence of pages: the
\* items of the first page only (the code reads response['Items'] and never
\* follows LastEvaluatedKey).
ScanItems(table) == IF table = <<>> THEN {} ELSE table[1]

\* Every item of the table, over all its pages.
AllItems(table) == UNION {table[i] : i \in 1..Len(table)}

\* get_active_endpoints: the names of the endpoints that are InService, in
\* listing order (list_endpoints is followed over all its pages).
RECURSIVE GetActiveEndpoints(_, _)
GetActiveEndpoints(names, eps) ==
    IF names = <<>> THEN <<>>
    ELSE (IF eps[Head(names)].status = "InService" THEN <<Head(names)>> ELSE <<>>)
         \o GetActiveEndpoints(Tail(names), eps)

\* has_exclude_tag: the exclude tag is there with the value 'true'; False
\* when list_tags raises.
HasExcludeTag(ep, raises) ==
    IF raises THEN FALSE ELSE ep.tag = EXCLUDE_TAG_VALUE

\* is_endpoint_idle, when get_metric_statistics answers: no datapoint, or
\* fewer invocations in total than the threshold.
IsEndpointIdle(ep) ==
    \/ ep.datapoints = <<>>
    \/ SumOf(ep.datapoints) < IDLE_THRESHOLD_INVOCATIONS

\* has_active_jobs: one scan with the filter on status and endpoint; True
\* when the scan raises.
HasActiveJobs(table, name, raises) ==
    IF raises THEN TRUE
    ELSE \E j \in ScanItems(table) :
            j.status \in ACTIVE_JOB_STATUSES /\ j.endpoint = name

\* The loop of lambda_handler over the active endpoints, env naming the
\* calls the environment makes raise; calls are the delete_endpoint calls
\* made so far and out the shutdown results so far.
RECURSIVE ShutdownLoop(_, _, _, _, _, _)
ShutdownLoop(names, eps, table, env, calls, out) ==
    IF names = <<>> THEN [statusCode |-> 200, calls |-> calls, results |-> out]
    ELSE LET n == Head(names)
             rest == Tail(names)
         IN
         IF HasExcludeTag(eps[n], env.list_tags)
         THEN ShutdownLoop(rest, eps, table, env, calls, out)
         ELSE IF env.get_metric_statistics = n
         THEN [statusCode |-> 500, calls |-> calls, results |-> <<>>]
         ELSE IF ~IsEndpointIdle(eps[n])
         THEN ShutdownLoop(rest, eps, table, env, calls, out)
         ELSE IF HasActiveJobs(table, n, env.scan)
         THEN ShutdownLoop(rest, eps, table, env, calls, out)
         ELSE ShutdownLoop(rest, eps, table, env, Append(calls, n),
                  Append(out, [endpoint_name |-> n,
                               status |-> IF env.delete_endpoint
                                          THEN "error"
                                          ELSE "shutdown_initiated"]))

\* lambda_handler(event, context) of the shutdown lambda.
ShutdownHandler(names, eps, table, env) ==
    ShutdownLoop(GetActiveEndpoints(names, eps), eps, table, env, <<>>, <<>>)

NoShutdownCall == [called |-> FALSE, statusCode |-> 0, calls |-> <<>>,
                   results |-> <<>>]

ReaperIdle ==
    /\ rpEndpoints = <<>>
    /\ rpTable = <<>>
    /\ rpLast = NoShutdownCall

(***************************************************************************)
(* lambda_handler of the intermediate-file cleanup lambda                  *)
(***************************************************************************)
\* An object key is kept as the sequence of its '/'-separated parts;
\* obj['Key'].split('/')[0] is its first part.
LeadingSegment(key) == key[1]

\* The keys list_objects_v2 returns for Prefix = job_id + "/".
KeysUnder(bucket, job_id) ==
    {key \in bucket : Len(key) > 1 /\ LeadingSegment(key) = job_id}

\* get_completed_jobs: one scan, filtered on COMPLETED jobs last updated
\* before the retention cutoff.
GetCompletedJobs(table) ==
    {j \in ScanItems(table) : j.Status = "COMPLETED" /\ j.expired}

\* get_orphaned_resources: one scan for the job ids, then every object of
\* the bucket (listed over all its pages) whose first key part is none of
\* them.
GetOrphanedResources(bucket, table) ==
    LET job_ids == {j.JobId : j \in ScanItems(table)} IN
    {key \in bucket : LeadingSegment(key) \notin job_ids}

\* cleanup_intermediate_files: the objects under each completed job's prefix
\* are deleted; failing names the jobs whose listing or deletion raises.
CleanupIntermediateFiles(bucket, completed_jobs, failing) ==
    LET done == {j.JobId : j \in completed_jobs} \ failing IN
    [deleted |-> UNION {KeysUnder(bucket, id) : id \in done},
     results |-> [id \in {j.JobId : j \in completed_jobs} |->
                     IF id \in failing THEN "error" ELSE "success"]]

\* cleanup_orphaned_resources: one delete_objects call for the orphaned
\* keys (fewer than 1000 here); an exception is recorded in 'errors'.
CleanupOrphanedResources(orphaned, raises) ==
    [total_orphaned |-> Cardinality(orphaned),
     requested |-> orphaned,
     deleted |-> IF raises THEN {} ELSE orphaned,
     errors |-> IF raises /\ orphaned # {} THEN 1 ELSE 0]

\* lambda_handler(event, context) of the cleanup lambda on a bucket and a
\* jobs table; env names what the environment makes raise.
CleanupHandler(bucket, table, env) ==
    IF env.scan \/ env.list_objects
    THEN [statusCode |-> 500, bucket |-> bucket, orphaned |-> {},
          orphan_deleted |-> {}, job_deleted |-> {}]
    ELSE LET completed_jobs == GetCompletedJobs(table)
             orphaned == GetOrphanedResources(bucket, table)
             jobs == CleanupIntermediateFiles(bucket, completed_jobs,
                                              env.job_cleanup)
             orph == CleanupOrphanedResources(orphaned, env.delete_objects)
         IN [statusCode |-> 200,
             bucket |-> (bucket \ jobs.deleted) \ orph.deleted,
             orphaned |-> orph.requested,
             orphan_deleted |-> orph.deleted,
             job_deleted |-> jobs.deleted]

NoCleanupCall == [called |-> FALSE, statusCode |-> 0, before |-> {},
                  orphaned |-> {}, orphan_deleted |-> {}, job_deleted |-> {}]

CleanupIdle ==
    /\ clBucket = {}
    /\ clTable = <<>>
    /\ clLast = NoCleanupCall

LambdaIdle ==
    /\ CompressIdle
    /\ ReaperIdle
    /\ CleanupIdle

(***************************************************************************)
(* Inputs                                                                  *)
(***************************************************************************)
JobIds == {"job-1"}
ImageNames == {"img1", "img2"}
BatchIds == {3, 7}
MemValues == {0, 512, 1250, 2048, 8192, 16384}
Readings == {Num(n) : n \in MemValues} \cup {NoneReading, RaiseReading}
Devices ==
    [available : {"yes", "no", "raise"}, total : Readings,
     reserved : Readings, allocated : Readings]

\* The devices process_batch is run on: accelerators whose readings give
\* batch sizes 1, 2 and 3.
SvcDevices ==
    {d \in Devices :
        /\ d.available = "yes"
        /\ d.total = Num(16384)
        /\ d.allocated = Num(0)
        /\ d.reserved \in {Num(0), Num(1250), Num(2048)}}

Dims == {64, AUTO_TILE_THRESHOLD, AUTO_TILE_THRESHOLD + 1}
TileSizes == {0, 256, AUTO_TILE_SIZE}

\* Single-item requests: every option of the request schema.
SingleItems ==
    [has_paths : BOOLEAN, s3_in : BOOLEAN, out_kind : {"s3", "local", "cache"},
     face_enhanced : {"absent", "yes", "no"},
     is_anime : {"absent", "yes", "true", "no"},
     tile_present : {TRUE}, tile_size : TileSizes,
     height : Dims, width : Dims, job_id : JobIds, batch_id : BatchIds,
     folder : {"a"}, name : {"img1"}]
    \cup
    [has_paths : BOOLEAN, s3_in : BOOLEAN, out_kind : {"s3", "local", "cache"},
     face_enhanced : {"absent", "yes", "no"},
     is_anime : {"absent", "yes", "true", "no"},
     tile_present : {FALSE}, tile_size : {0},
     height : Dims, width : Dims, job_id : JobIds, batch_id : BatchIds,
     folder : {"a"}, name : {"img1"}]

\* Batch items carry no job_id of their own; a batch_id they carry is
\* overwritten by process_batch.
BatchItems ==
    [has_paths : BOOLEAN, s3_in : {TRUE}, out_kind : {"s3"},
     face_enhanced : {"absent"}, is_anime : {"absent"},
     tile_present : {FALSE}, tile_size : {0},
     height : {64}, width : {64}, job_id : {"absent"}, batch_id : {7},
     folder : {"a"}, name : {"img1"}]

\* Batch items whose input files are named: two names in two folders of the
\* bucket, so that input_file_path is s3://bucket/<folder>/<name>.png.
NamedBatchItems ==
    [has_paths : {TRUE}, s3_in : {TRUE}, out_kind : {"s3"},
     face_enhanced : {"absent"}, is_anime : {"absent"},
     tile_present : {FALSE}, tile_size : {0},
     height : {64}, width : {64}, job_id : {"absent"}, batch_id : {7},
     folder : {"a", "b"}, name : ImageNames]


\* Batch items are s3-to-s3, so a copy fault has nothing to fail.
BatchFaults == Faults \ {"copy"}

RECURSIVE SeqsUpTo(_, _)
SeqsUpTo(S, n) ==
    IF n = 0 THEN {<<>>}
    ELSE LET shorter == SeqsUpTo(S, n - 1) IN
         shorter \cup {Append(q, x) : q \in {r \in shorter : Len(r) = n - 1}, x \in S}

BatchRequests ==
    [kind : {"batch"}, job_present : {TRUE}, job_id : {"job-1"},
     batch : SeqsUpTo(BatchItems, MaxBatch)]
    \cup
    [kind : {"batch"}, job_present : {FALSE}, job_id : {"absent"},
     batch : SeqsUpTo(BatchItems, MaxBatch)]

NamedBatchRequests ==
    [kind : {"batch"}, job_present : {TRUE}, job_id : {"job-1"},
     batch : SeqsUpTo(NamedBatchItems, MaxBatch)]

\* Blob transfer: two remote images, their local cache paths, a bare path.
LocalPaths == {"cache/img1", "cache/img2"}
Uris == {S3Uri(n) : n \in ImageNames} \cup {LocalUri("local.png")}
StoreKeys == {Key(n) : n \in ImageNames} \cup {CompressedKey(Key(n)) : n \in ImageNames}
CallFaults == {"ok", "client", "other"}
\* One remote call fails, or get_object fails with a ClientError and the
\* download it falls back to fails too.
FetchEnvs ==
    {e \in [head : CallFaults, head_gz : CallFaults, get : CallFaults,
            download : CallFaults] :
        \/ \E c \in {"head", "head_gz", "get", "download"} :
              \A o \in {"head", "head_gz", "get", "download"} \ {c} : e[o] = "ok"
        \/ e.head = "ok" /\ e.head_gz = "ok" /\ e.get = "client"}

PlainObject(data, size) == [present |-> TRUE, size |-> size, enc |-> "plain", data |-> data]
GzipObject(data) == [present |-> TRUE, size |-> 1, enc |-> "gzip", data |-> data]
CorruptObject == [present |-> TRUE, size |-> 1, enc |-> "corrupt", data |-> "none"]

\* What the object store may hold: img1 missing, at the multipart threshold
\* or above it, with or without a compressed sibling (a good one, one of
\* other bytes, a corrupt one); img2 small and uncompressed.
Stores ==
    {st \in [StoreKeys -> {AbsentObject, PlainObject("A", MULTIPART_THRESHOLD),
                           PlainObject("A", MULTIPART_THRESHOLD + 1),
                           PlainObject("B", 1), GzipObject("A"), GzipObject("B"),
                           CorruptObject}] :
        /\ st[Key("img1")] \in {AbsentObject, PlainObject("A", MULTIPART_THRESHOLD),
                                PlainObject("A", MULTIPART_THRESHOLD + 1)}
        /\ st[CompressedKey(Key("img1"))] \in
                {AbsentObject, GzipObject("A"), GzipObject("B"), CorruptObject}
        /\ st[Key("img2")] = PlainObject("B", 1)
        /\ st[CompressedKey(Key("img2"))] = AbsentObject}

\* The local disk: the cache paths and the temporary files next to them.
DiskPaths == LocalPaths \cup {GzPath(p) : p \in LocalPaths}

\* upload_to_s3's environment: at most one step fails.
UploadEnvs ==
    {e \in [compress : {"ok", "open", "write"}, upload_gz : CallFaults,
            upload : CallFaults] :
        \E c \in {"compress", "upload_gz", "upload"} :
            \A o \in {"compress", "upload_gz", "upload"} \ {c} : e[o] = "ok"}

NoFetch ==
    [called |-> FALSE, uri |-> LocalUri("none"), lp |-> "none", hit |-> FALSE,
     ret |-> Ret("none"), ops |-> <<>>, faults |-> {}]

NoUpload ==
    [called |-> FALSE, uri |-> LocalUri("none"), lp |-> "none",
     ret |-> Ret("none"), ops |-> <<>>]

TransferIdle ==
    /\ fetchLast = NoFetch
    /\ fetchPrev = NoFetch
    /\ upLast = NoUpload
    /\ recent = <<"none", "none">>
    /\ transfers = 0

FetchIdle ==
    /\ useCompression = FALSE
    /\ files = [p \in DiskPaths |-> "absent"]
    /\ store = [k \in StoreKeys |-> AbsentObject]
    /\ TransferIdle

NoRequest == [kind |-> "none", job_present |-> FALSE, job_id |-> "absent", batch |-> <<>>]
NoResponse == [raised |-> FALSE, result |-> NoResult]

(***************************************************************************)
(* The inference service: predict_fn                                       *)
(***************************************************************************)
NoCallYet == [called |-> FALSE, reserved |-> Num(0), allocated |-> Num(0), result |-> 0]

SizeIdle ==
    /\ szLast = NoCallYet
    /\ szPrev = NoCallYet

SvcInit ==
    /\ pc = "idle"
    /\ request = NoRequest
    /\ batch_size = 0
    /\ subStart = 0
    /\ fstate = <<>>
    /\ fout = <<>>
    /\ faultOf = <<>>
    /\ results = <<>>
    /\ response = NoResponse

Init ==
    /\ FetchIdle
    /\ dev = CHOOSE d \in SvcDevices : d.reserved = Num(0)
    /\ SizeIdle
    /\ SvcInit
    /\ ModelInit
    /\ SwinIdle
    /\ LambdaIdle

\* predict_fn on a request without a 'batch' list: process_single_image runs
\* on the calling thread and its dict (or its exception) is the response.
PredictSingle(item, fault) ==
    /\ pc = "idle"
    /\ LET out == ProcessSingleImage(item, fault) IN
       /\ request' = [kind |-> "single", job_present |-> TRUE,
                      job_id |-> item.job_id, batch |-> <<item>>]
       /\ fstate' = <<"inline">>
       /\ fout' = <<out>>
       /\ faultOf' = <<FaultMet(item, fault)>>
       /\ response' = [raised |-> out.raised, result |-> out.ret]
    /\ pc' = "done"
    /\ batch_size' = 0
    /\ subStart' = 0
    /\ results' = <<>>
    /\ UNCHANGED <<sizeVars, modelVars, fetchVars, swinVars, lambdaVars>>

\* predict_fn on a batch request: process_batch up to its for loop.
ProcessBatchBegin(req, d) ==
    /\ pc = "idle"
    /\ request' = req
    /\ batch_size' = DetermineOptimalBatchSize(d)
    /\ subStart' = 0
    /\ fstate' = [k \in 1..Len(req.batch) |-> "none"]
    /\ fout' = [k \in 1..Len(req.batch) |-> NoOutcome]
    /\ faultOf' = [k \in 1..Len(req.batch) |-> "none"]
    /\ results' = <<>>
    /\ response' = NoResponse
    /\ pc' = "loop"
    /\ UNCHANGED <<sizeVars, modelVars, fetchVars, swinVars, lambdaVars>>

\* for i in range(0, len(batch_items), batch_size): the next sub-batch and
\* its executor, or the return after the last one.
LoopHead ==
    /\ pc = "loop"
    /\ IF subStart < NumItems
       THEN /\ pc' = "submit"
            /\ UNCHANGED response
       ELSE /\ pc' = "done"
            /\ response' = BatchResponse
    /\ UNCHANGED <<request, batch_size, subStart, fstate, fout, faultOf, results>>
    /\ UNCHANGED <<sizeVars, modelVars, fetchVars, swinVars, lambdaVars>>

\* One executor.submit of the dict comprehension, in sub-batch order.
Submit(k) ==
    /\ pc = "submit"
    /\ k \in SubBatch
    /\ fstate[k] = "none"
    /\ \A j \in SubBatch : j < k => fstate[j] # "none"
    /\ fstate' = [fstate EXCEPT ![k] = "queued"]
    /\ pc' = IF \A j \in SubBatch : j > k => fstate[j] # "none"
             THEN "collect" ELSE "submit"
    /\ UNCHANGED <<request, batch_size, subStart, fout, faultOf, results, response>>
    /\ UNCHANGED <<sizeVars, modelVars, fetchVars, swinVars, lambdaVars>>

\* A pool thread takes the oldest queued work item; the pool has at most
\* max_workers threads.
WorkerStart(k) ==
    /\ k \in Queued
    /\ \A j \in Queued : k <= j
    /\ Cardinality(Running) < MaxWorkers
    /\ fstate' = [fstate EXCEPT ![k] = "running"]
    /\ UNCHANGED <<pc, request, batch_size, subStart, fout, faultOf, results, response>>
    /\ UNCHANGED <<sizeVars, modelVars, fetchVars, swinVars, lambdaVars>>

\* The worker's process_single_image call ends: the future holds its dict or
\* its exception.
WorkerFinish(k, fault) ==
    /\ k \in Running
    /\ fstate' = [fstate EXCEPT ![k] = "done"]
    /\ faultOf' = [faultOf EXCEPT ![k] = FaultMet(request.batch[k], fault)]
    /\ fout' = [fout EXCEPT ![k] =
            ProcessSingleImage(
                WithIds(request.batch[k], BatchJobId(request), BatchIdOf(k)),
                fault)]
    /\ UNCHANGED <<pc, request, batch_size, subStart, results, response>>
    /\ UNCHANGED <<sizeVars, modelVars, fetchVars, swinVars, lambdaVars>>

\* One iteration of the as_completed loop: any finished future not yet seen.
Collect(k) ==
    /\ pc = "collect"
    /\ k \in SubBatch
    /\ fstate[k] = "done"
    /\ fstate' = [fstate EXCEPT ![k] = "collected"]
    /\ results' = Append(results, CollectedResult(k))
    /\ UNCHANGED <<pc, request, batch_size, subStart, fout, faultOf, response>>
    /\ UNCHANGED <<sizeVars, modelVars, fetchVars, swinVars, lambdaVars>>

\* as_completed is exhausted and the with block shuts the executor down.
EndSubBatch ==
    /\ pc = "collect"
    /\ \A k \in SubBatch : fstate[k] = "collected"
    /\ subStart' = subStart + batch_size
    /\ pc' = "loop"
    /\ UNCHANGED <<request, batch_size, fstate, fout, faultOf, results, response>>
    /\ UNCHANGED <<sizeVars, modelVars, fetchVars, swinVars, lambdaVars>>

\* The response has been delivered: the handler's locals are gone and the
\* service waits for the next request.
NextRequest ==
    /\ pc = "done"
    /\ pc' = "idle"
    /\ request' = NoRequest
    /\ batch_size' = 0
    /\ subStart' = 0
    /\ fstate' = <<>>
    /\ fout' = <<>>
    /\ faultOf' = <<>>
    /\ results' = <<>>
    /\ response' = NoResponse
    /\ UNCHANGED <<sizeVars, modelVars, fetchVars, swinVars, lambdaVars>>

Next ==
    \/ pc = "idle" /\ \E item \in SingleItems, fault \in Faults :
                        PredictSingle(item, fault)
    \/ pc = "idle" /\ \E req \in BatchRequests, d \in SvcDevices :
                        ProcessBatchBegin(req, d)
    \/ LoopHead
    \/ \E k \in 1..MaxBatch : Submit(k)
    \/ \E k \in 1..MaxBatch : WorkerStart(k)
    \/ \E k \in 1..MaxBatch, fault \in BatchFaults : WorkerFinish(k, fault)
    \/ \E k \in 1..MaxBatch : Collect(k)
    \/ EndSubBatch
    \/ NextRequest

Spec == Init /\ [][Next]_vars

(***************************************************************************)
(* The batch path on its own, for batches whose input files are named.     *)
(***************************************************************************)
CacheDirNext ==
    \/ pc = "idle" /\ \E req \in NamedBatchRequests, d \in SvcDevices :
                        ProcessBatchBegin(req, d)
    \/ LoopHead
    \/ \E k \in 1..MaxBatch : Submit(k)
    \/ \E k \in 1..MaxBatch : WorkerStart(k)
    \/ \E k \in 1..MaxBatch : WorkerFinish(k, "none")
    \/ \E k \in 1..MaxBatch : Collect(k)
    \/ EndSubBatch
    \/ NextRequest

SpecCacheDir == Init /\ [][CacheDirNext]_vars

(***************************************************************************)
(* process_batch on a batch wider than MAX_CONCURRENCY: one request of     *)
(* PoolBatch like items on a device that gives a batch size of 13 or of 3. *)
(* The workers outlast the submit loop and a free pool thread takes queued *)
(* work at once; of the workers running, the one at the lowest or at the   *)
(* highest position finishes next, and as_completed hands each finished    *)
(* future over before the next worker finishes.                            *)
(***************************************************************************)
PoolBatch == 11

PoolItem ==
    [has_paths |-> TRUE, s3_in |-> TRUE, out_kind |-> "s3",
     face_enhanced |-> "absent", is_anime |-> "absent",
     tile_present |-> FALSE, tile_size |-> 0,
     height |-> 64, width |-> 64, job_id |-> "absent", batch_id |-> 7,
     folder |-> "a", name |-> "img1"]

PoolRequest ==
    [kind |-> "batch", job_present |-> TRUE, job_id |-> "job-1",
     batch |-> [k \in 1..PoolBatch |-> PoolItem]]

PoolDevices ==
    {d \in Devices :
        /\ d.available = "yes"
        /\ d.total = Num(16384)
        /\ d.allocated = Num(0)
        /\ d.reserved \in {Num(2048), Num(8192)}}

PoolWorkerFinish(k) ==
    /\ pc = "collect"
    /\ \A j \in SubBatch : fstate[j] # "done"
    /\ Queued = {} \/ Cardinality(Running) = MaxWorkers
    /\ \/ \A j \in Running : k <= j
       \/ \A j \in Running : j <= k
    /\ WorkerFinish(k, "none")

PoolNext ==
    \/ pc = "idle" /\ \E d \in PoolDevices : ProcessBatchBegin(PoolRequest, d)
    \/ LoopHead
    \/ \E k \in 1..PoolBatch : Submit(k)
    \/ \E k \in 1..PoolBatch : WorkerStart(k)
    \/ \E k \in 1..PoolBatch : PoolWorkerFinish(k)
    \/ \E k \in 1..PoolBatch : Collect(k)
    \/ EndSubBatch
    \/ NextRequest

SpecPool == Init /\ [][PoolNext]_vars

(***************************************************************************)
(* Batch admission on its own: determine_optimal_batch_size called again   *)
(* and again on one device while the memory in use on it changes.          *)
(***************************************************************************)
SizeInit ==
    /\ FetchIdle
    /\ dev \in Devices
    /\ SizeIdle
    /\ SvcInit
    /\ ModelInit
    /\ SwinIdle
    /\ LambdaIdle

\* The memory readings change, and determine_optimal_batch_size is called.
DetermineCall(r, a) ==
    /\ dev' = [dev EXCEPT !.reserved = r, !.allocated = a]
    /\ szPrev' = szLast
    /\ szLast' = [called |-> TRUE, reserved |-> r, allocated |-> a,
                  result |-> DetermineOptimalBatchSize(dev')]
    /\ UNCHANGED <<svcVars, modelVars, fetchVars, swinVars, lambdaVars>>

SizeNext == \E r \in Readings, a \in Readings : DetermineCall(r, a)

SpecSize == SizeInit /\ [][SizeNext]_vars

(***************************************************************************)
(* The model loader on its own: threads calling model_fn and load_model.   *)
(***************************************************************************)
LoaderInit ==
    /\ FetchIdle
    /\ dev = CHOOSE d \in SvcDevices : d.reserved = Num(0)
    /\ SizeIdle
    /\ SvcInit
    /\ ModelInit
    /\ SwinIdle
    /\ LambdaIdle

\* A thread enters a load_model call for the next key of its program.
Enters(t, keys) ==
    /\ caller[t].pc = "idle"
    /\ mresolves + Len(keys) <= MaxResolves
    /\ mresolves' = mresolves + Len(keys)
    /\ caller' = [caller EXCEPT ![t] =
                    [pc |-> "lookup", todo |-> keys, got |-> <<>>, handle |-> NoHandle]]
    /\ mOverlap' = (mOverlap \/ \E u \in Callers \ {t} : InCall(caller[u]))
    /\ UNCHANGED <<mcache, mloads, markers>>
    /\ UNCHANGED <<sizeVars, svcVars, fetchVars, swinVars, lambdaVars>>

\* model_fn: load_model for the standard model, then for the anime model.
CallModelFn(t) == Enters(t, <<"standard", "anime">>)

\* load_model called directly with one key.
CallLoadModel(t, key) == Enters(t, <<key>>)

\* The calls left once the current one returned h; the thread is done after
\* its last call.
Returned(c, h) ==
    [pc |-> IF Len(c.todo) > 1 THEN "lookup" ELSE "idle",
     todo |-> Tail(c.todo), got |-> Append(c.got, h), handle |-> NoHandle]

\* The lru_cache wrapper looks the key up: a hit returns the cached handle,
\* a miss goes on to call the wrapped function.
Lookup(t) ==
    /\ caller[t].pc = "lookup"
    /\ LET key == Head(caller[t].todo) IN
       IF key \in CachedKeys
       THEN /\ mcache' = Touched(mcache, key)
            /\ caller' = [caller EXCEPT ![t] = Returned(@, CachedHandle(key))]
       ELSE /\ caller' = [caller EXCEPT ![t].pc = "loading"]
            /\ UNCHANGED mcache
    /\ UNCHANGED <<mloads, markers, mresolves, mOverlap>>
    /\ UNCHANGED <<sizeVars, svcVars, fetchVars, swinVars, lambdaVars>>

\* The body of load_model: an unknown model_type raises ValueError before
\* anything is loaded (and model_fn re-raises); otherwise the weights are
\* loaded and the marker link is made if it is not there (a failure to make
\* it is only logged).
LoadBody(t, linked) ==
    /\ caller[t].pc = "loading"
    /\ LET key == Head(caller[t].todo) IN
       IF ~KnownType(key)
       THEN /\ caller' = [caller EXCEPT ![t] =
                            [IdleCaller EXCEPT !.got = Append(caller[t].got, NoHandle)]]
            /\ UNCHANGED <<mloads, markers>>
       ELSE /\ mloads' = [mloads EXCEPT ![key] = @ + 1]
            /\ markers' = IF linked THEN markers \cup {key} ELSE markers
            /\ caller' = [caller EXCEPT ![t].pc = "store",
                                        ![t].handle = [key |-> key, n |-> mloads[key] + 1]]
    /\ UNCHANGED <<mcache, mresolves, mOverlap>>
    /\ UNCHANGED <<sizeVars, svcVars, fetchVars, swinVars, lambdaVars>>

\* Back in the wrapper: the result is put in the cache and returned.
Store(t) ==
    /\ caller[t].pc = "store"
    /\ mcache' = Inserted(mcache, Head(caller[t].todo), caller[t].handle)
    /\ caller' = [caller EXCEPT ![t] = Returned(@, caller[t].handle)]
    /\ UNCHANGED <<mloads, markers, mresolves, mOverlap>>
    /\ UNCHANGED <<sizeVars, svcVars, fetchVars, swinVars, lambdaVars>>

LoaderNext ==
    \/ \E t \in Callers : CallModelFn(t)
    \/ \E t \in Callers, key \in ModelKeys : CallLoadModel(t, key)
    \/ \E t \in Callers : Lookup(t)
    \/ \E t \in Callers, linked \in BOOLEAN : LoadBody(t, linked)
    \/ \E t \in Callers : Store(t)

SpecLoader == LoaderInit /\ [][LoaderNext]_vars

(***************************************************************************)
(* Blob transfer on its own: download_from_s3 called again and again on    *)
(* one local disk.                                                         *)
(***************************************************************************)
FetchInit ==
    /\ useCompression \in BOOLEAN
    /\ files = [p \in DiskPaths |-> "absent"]
    /\ store \in Stores
    /\ TransferIdle
    /\ dev = CHOOSE d \in SvcDevices : d.reserved = Num(0)
    /\ SizeIdle
    /\ SvcInit
    /\ ModelInit
    /\ SwinIdle
    /\ LambdaIdle

Download(uri, lp, env) ==
    /\ LET r == DownloadFromS3(uri, lp, env, useCompression, files, store) IN
       /\ files' = r.files
       /\ fetchLast' = [called |-> TRUE, uri |-> uri, lp |-> lp,
                        hit |-> files[lp] # "absent", ret |-> r.ret, ops |-> r.ops,
                        faults |-> FaultsMet(r.ops, env, Key(uri.name))]
    /\ fetchPrev' = [fetchLast EXCEPT !.ops = <<>>, !.faults = {}]
    /\ recent' = <<recent[2], "download">>
    /\ transfers' = Min(transfers + 1, MaxTransfers)
    /\ UNCHANGED <<useCompression, store, upLast>>
    /\ UNCHANGED <<sizeVars, svcVars, modelVars, swinVars, lambdaVars>>

FetchNext == \E uri \in Uris, lp \in LocalPaths, env \in FetchEnvs : Download(uri, lp, env)

SpecFetch == FetchInit /\ [][FetchNext]_vars

(***************************************************************************)
(* Blob transfer in both directions: upload_to_s3 and download_from_s3     *)
(* called one after the other on one local disk and one object store.      *)
(***************************************************************************)
\* The local disk at the start: one cache path holds an image (or nothing).
StartDisks ==
    {[p \in DiskPaths |-> IF p = "cache/img2" THEN c ELSE "absent"] :
        c \in Contents \cup {"absent"}}

\* The object store at the start: img1 there or not, with or without a
\* compressed sibling of other bytes.
StartStores ==
    {st \in Stores :
        /\ st[Key("img1")] \in {AbsentObject, PlainObject("A", MULTIPART_THRESHOLD)}
        /\ st[CompressedKey(Key("img1"))] \in {AbsentObject, GzipObject("B")}}

StoreInit ==
    /\ useCompression \in BOOLEAN
    /\ files \in StartDisks
    /\ store \in StartStores
    /\ TransferIdle
    /\ dev = CHOOSE d \in SvcDevices : d.reserved = Num(0)
    /\ SizeIdle
    /\ SvcInit
    /\ ModelInit
    /\ SwinIdle
    /\ LambdaIdle

Upload(lp, uri, big, env) ==
    /\ LET r == UploadToS3(lp, uri, big, env, useCompression, files, store) IN
       /\ files' = r.files
       /\ store' = r.store
       /\ upLast' = [called |-> TRUE, uri |-> uri, lp |-> lp, ret |-> r.ret,
                     ops |-> r.ops]
    /\ recent' = <<recent[2], "upload">>
    /\ transfers' = Min(transfers + 1, MaxTransfers)
    /\ UNCHANGED <<useCompression, fetchLast, fetchPrev>>
    /\ UNCHANGED <<sizeVars, svcVars, modelVars, swinVars, lambdaVars>>

StoreNext ==
    \/ transfers < MaxTransfers /\
            \E uri \in Uris, lp \in LocalPaths, env \in FetchEnvs :
                Download(uri, lp, env)
    \/ transfers < MaxTransfers /\
            \E lp \in LocalPaths, uri \in {S3Uri("img1"), LocalUri("local.png")},
               big \in BOOLEAN, env \in UploadEnvs :
                Upload(lp, uri, big, env)

SpecStore == StoreInit /\ [][StoreNext]_vars

(***************************************************************************)
(* The input download of process_single_image on its own: requests for    *)
(* named s3 inputs, served one after the other on one cache directory.     *)
(***************************************************************************)
InputKeys == {Key(InputUriName(item)) : item \in NamedBatchItems}

\* The bucket: every named input is there, with one of two contents.
InputStores == [InputKeys -> {PlainObject("A", 1), PlainObject("B", 1)}]

InputCacheInit ==
    /\ useCompression = FALSE
    /\ files = [p \in DiskPaths |-> "absent"]
    /\ store \in InputStores
    /\ TransferIdle
    /\ dev = CHOOSE d \in SvcDevices : d.reserved = Num(0)
    /\ SizeIdle
    /\ SvcInit
    /\ ModelInit
    /\ SwinIdle
    /\ LambdaIdle

\* The download step of process_single_image for an s3 input:
\* download_from_s3(input_file_path, local_input_path).
FetchInput(item, env) ==
    Download(S3Uri(InputUriName(item)), LocalInputPath(item), env)

InputCacheNext ==
    \E item \in NamedBatchItems,
       env \in {e \in FetchEnvs : e.head_gz = "ok" /\ e.get = "ok"} :
        FetchInput(item, env)

SpecInputCache == InputCacheInit /\ [][InputCacheNext]_vars

(***************************************************************************)
(* The SwinIR model loader on its own: model_fn called again and again on  *)
(* one model directory.                                                    *)
(***************************************************************************)
\* model_variant arguments: none, the known variants, two unknown ones.
SwinArgs == {"None", "bicubic", "x8"} \cup SwinVariants

\* Model directories: any of three weight files present.
SwinDirs == SUBSET {"real_sr", "classical_sr", "color_dn"}

SwinInit ==
    /\ swDir \in SwinDirs
    /\ swCache = <<>>
    /\ swLast = NoSwinCall
    /\ SwinPredictIdle
    /\ FetchIdle
    /\ dev = CHOOSE d \in SvcDevices : d.reserved = Num(0)
    /\ SizeIdle
    /\ SvcInit
    /\ ModelInit
    /\ LambdaIdle

\* model_fn(model_dir, model_variant) through its lru_cache: a hit returns
\* the cached model; a miss runs the body and caches what it returns (an
\* exception is not cached).
SwinModelFn(arg) ==
    /\ IF arg \in SwCachedKeys
       THEN /\ swCache' = SwTouched(swCache, arg)
            /\ swLast' = [called |-> TRUE, arg |-> arg, hit |-> TRUE,
                          raised |-> FALSE, model |-> SwCached(arg)]
       ELSE LET r == SwinModelFnBody(arg, swDir) IN
            /\ swCache' = IF r.raised THEN swCache
                          ELSE SwInserted(swCache, arg, r.model)
            /\ swLast' = [called |-> TRUE, arg |-> arg, hit |-> FALSE,
                          raised |-> r.raised, model |-> r.model]
    /\ UNCHANGED swDir
    /\ UNCHANGED swinPredictVars
    /\ UNCHANGED <<sizeVars, svcVars, modelVars, fetchVars, lambdaVars>>

SwinNext == \E arg \in SwinArgs : SwinModelFn(arg)

SpecSwin == SwinInit /\ [][SwinNext]_vars

(***************************************************************************)
(* The SwinIR predict_fn on its own, on lists of up to MaxSwinBatch items. *)
(***************************************************************************)
SwinItems == [has_keys : BOOLEAN, job_id : {"job-1"}, batch_id : {"b1", "b2"}]
SwinBatches == SeqsUpTo(SwinItems, MaxSwinBatch) \ {<<>>}

SwinPredictInit ==
    /\ SwinPredictIdle
    /\ swDir = {}
    /\ swCache = <<>>
    /\ swLast = NoSwinCall
    /\ FetchIdle
    /\ dev = CHOOSE d \in SvcDevices : d.reserved = Num(0)
    /\ SizeIdle
    /\ SvcInit
    /\ ModelInit
    /\ LambdaIdle

SwinRest == <<sizeVars, svcVars, modelVars, fetchVars, lambdaVars, swinModelVars>>

\* predict_fn on a list of one item: process_single_image on the calling
\* thread, its dict (or its exception) returned as it is.
SwinPredictInline(batch, fault) ==
    /\ spc = "idle"
    /\ Len(batch) = 1
    /\ LET out == SwinProcessSingleImage(batch[1], fault) IN
       /\ spFut' = <<[state |-> "inline", out |-> out]>>
       /\ spResponse' = [raised |-> out.raised, kind |-> "dict", value |-> <<out>>]
    /\ spBatch' = batch
    /\ spResults' = <<>>
    /\ spc' = "done"
    /\ UNCHANGED SwinRest

\* predict_fn on a longer list, up to the executor's with block.
SwinPredictBegin(batch) ==
    /\ spc = "idle"
    /\ Len(batch) >= 2
    /\ spBatch' = batch
    /\ spFut' = [k \in 1..Len(batch) |-> NoSwinFuture]
    /\ spResults' = <<>>
    /\ spResponse' = NoSwinResponse
    /\ spc' = "submit"
    /\ UNCHANGED SwinRest

\* One executor.submit of the dict comprehension, in list order; a submit
\* that raises (no thread can be started) leaves the with block.
SwinSubmit(k, fails) ==
    /\ spc = "submit"
    /\ k \in 1..Len(spBatch)
    /\ spFut[k].state = "none"
    /\ \A j \in 1..Len(spBatch) : j < k => spFut[j].state # "none"
    /\ IF fails
       THEN /\ spc' = "abort"
            /\ UNCHANGED spFut
       ELSE /\ spFut' = [spFut EXCEPT ![k].state = "queued"]
            /\ spc' = IF k = Len(spBatch) THEN "collect" ELSE "submit"
    /\ UNCHANGED <<spBatch, spResults, spResponse>>
    /\ UNCHANGED SwinRest

\* A pool thread takes the oldest queued work item.
SwinWorkerStart(k) ==
    /\ k \in SwinQueued
    /\ \A j \in SwinQueued : k <= j
    /\ Cardinality(SwinRunning) < SwinPoolSize
    /\ spFut' = [spFut EXCEPT ![k].state = "running"]
    /\ UNCHANGED <<spc, spBatch, spResults, spResponse>>
    /\ UNCHANGED SwinRest

\* The worker's process_single_image call ends.
SwinWorkerFinish(k, fault) ==
    /\ k \in SwinRunning
    /\ spFut' = [spFut EXCEPT ![k] =
            [state |-> "done", out |-> SwinProcessSingleImage(spBatch[k], fault)]]
    /\ UNCHANGED <<spc, spBatch, spResults, spResponse>>
    /\ UNCHANGED SwinRest

\* One iteration of the as_completed loop.
SwinCollect(k) ==
    /\ spc = "collect"
    /\ k \in 1..Len(spBatch)
    /\ spFut[k].state = "done"
    /\ spFut' = [spFut EXCEPT ![k].state = "collected"]
    /\ spResults' = Append(spResults, SwinCollected(k))
    /\ UNCHANGED <<spc, spBatch, spResponse>>
    /\ UNCHANGED SwinRest

\* as_completed is exhausted: the with block ends and results is returned.
SwinReturn ==
    /\ spc = "collect"
    /\ \A k \in 1..Len(spBatch) : spFut[k].state = "collected"
    /\ spResponse' = [raised |-> FALSE, kind |-> "list", value |-> spResults]
    /\ spc' = "done"
    /\ UNCHANGED <<spBatch, spFut, spResults>>
    /\ UNCHANGED SwinRest

\* After a failed submit the with block waits for the work handed over so
\* far, and the outer except returns its one-element list.
SwinAbortReturn ==
    /\ spc = "abort"
    /\ \A k \in 1..Len(spBatch) : spFut[k].state \in {"none", "done"}
    /\ spResponse' = [raised |-> FALSE, kind |-> "list", value |-> SwinBatchError]
    /\ spc' = "done"
    /\ UNCHANGED <<spBatch, spFut, spResults>>
    /\ UNCHANGED SwinRest

SwinNextRequest ==
    /\ spc = "done"
    /\ spc' = "idle"
    /\ spBatch' = <<>>
    /\ spFut' = <<>>
    /\ spResults' = <<>>
    /\ spResponse' = NoSwinResponse
    /\ UNCHANGED SwinRest

SwinPredictNext ==
    \/ spc = "idle" /\ \E batch \in SwinBatches, fault \in SwinFaults :
                          SwinPredictInline(batch, fault)
    \/ spc = "idle" /\ \E batch \in SwinBatches : SwinPredictBegin(batch)
    \/ \E k \in 1..MaxSwinBatch, fails \in BOOLEAN : SwinSubmit(k, fails)
    \/ \E k \in 1..MaxSwinBatch : SwinWorkerStart(k)
    \/ \E k \in 1..MaxSwinBatch, fault \in SwinFaults : SwinWorkerFinish(k, fault)
    \/ \E k \in 1..MaxSwinBatch : SwinCollect(k)
    \/ SwinReturn
    \/ SwinAbortReturn
    \/ SwinNextRequest

SpecSwinPredict == SwinPredictInit /\ [][SwinPredictNext]_vars

(***************************************************************************)
(* The compression lambda on its own: compress_object called on the keys   *)
(* of one bucket.                                                          *)
(***************************************************************************)
FrameKeys == {Key("job/f1"), Key("job/f2")}
BucketKeys == FrameKeys \cup {CompressedKey(k) : k \in FrameKeys}

\* The bucket at the start: each frame there or not, with or without an
\* older compressed copy of other bytes.
StartBuckets ==
    {st \in [BucketKeys -> {AbsentObject, PlainObject("A", 1), PlainObject("B", 1),
                            GzipObject("B")}] :
        \A k \in FrameKeys :
            /\ st[k] \in {AbsentObject, PlainObject("A", 1), PlainObject("B", 1)}
            /\ st[CompressedKey(k)] \in {AbsentObject, GzipObject("B")}}

CompressInit ==
    /\ lcStore \in StartBuckets
    /\ lcLast = NoCompressCall
    /\ ReaperIdle
    /\ CleanupIdle
    /\ FetchIdle
    /\ dev = CHOOSE d \in SvcDevices : d.reserved = Num(0)
    /\ SizeIdle
    /\ SvcInit
    /\ ModelInit
    /\ SwinIdle

Compress(k, fault) ==
    /\ LET r == CompressObject(k, fault, lcStore) IN
       /\ lcStore' = r.store
       /\ lcLast' = [called |-> TRUE, key |-> k, ret |-> r.ret, ops |-> r.ops,
                     failed |-> r.failed, before |-> lcStore[k]]
    /\ UNCHANGED <<sizeVars, svcVars, modelVars, fetchVars, swinVars>>
    /\ UNCHANGED <<reaperVars, cleanupVars>>

CompressNext ==
    \E k \in FrameKeys, fault \in {"none"} \cup {CompressSteps[i] : i \in 1..4} :
        Compress(k, fault)

SpecCompress == CompressInit /\ [][CompressNext]_vars

(***************************************************************************)
(* The shutdown lambda on its own: runs of lambda_handler over two         *)
(* endpoints and a jobs table of one or two scan pages.                    *)
(***************************************************************************)
EndpointNames == <<"ep1", "ep2">>
EndpointSet == {EndpointNames[i] : i \in 1..Len(EndpointNames)}
EndpointStates ==
    [status : {"InService", "Creating"},
     tag : {"none", "true", "false"},
     datapoints : {<<>>, <<4>>, <<2, 3>>}]
EndpointJobs ==
    [status : {"PROCESSING", "INITIATED", "COMPLETED"}, endpoint : EndpointSet]
FinishedJob == [status |-> "COMPLETED", endpoint |-> "ep1"]

\* The jobs table: empty, one job on its only page, or a job on a second
\* page behind a first page that holds a finished job.
EndpointJobTables ==
    {<<{}>>} \cup {<<{j}>> : j \in EndpointJobs}
             \cup {<<{FinishedJob}, {j}>> : j \in EndpointJobs}

ReaperEnvs ==
    [list_tags : BOOLEAN, get_metric_statistics : {"none"} \cup EndpointSet,
     scan : BOOLEAN, delete_endpoint : BOOLEAN]

ReaperInit ==
    /\ rpEndpoints \in [EndpointSet -> EndpointStates]
    /\ rpTable \in EndpointJobTables
    /\ rpLast = NoShutdownCall
    /\ CompressIdle
    /\ CleanupIdle
    /\ FetchIdle
    /\ dev = CHOOSE d \in SvcDevices : d.reserved = Num(0)
    /\ SizeIdle
    /\ SvcInit
    /\ ModelInit
    /\ SwinIdle

\* One run of the shutdown lambda; an endpoint whose delete_endpoint call
\* succeeded leaves the InService state.
ShutdownRun(env) ==
    /\ LET r == ShutdownHandler(EndpointNames, rpEndpoints, rpTable, env)
           gone == IF env.delete_endpoint THEN {}
                   ELSE {r.calls[i] : i \in 1..Len(r.calls)}
       IN
       /\ rpLast' = [called |-> TRUE, statusCode |-> r.statusCode,
                     calls |-> r.calls, results |-> r.results,
                     before |-> rpEndpoints]
       /\ rpEndpoints' = [n \in EndpointSet |->
                             IF n \in gone
                             THEN [rpEndpoints[n] EXCEPT !.status = "Deleting"]
                             ELSE rpEndpoints[n]]
    /\ UNCHANGED rpTable
    /\ UNCHANGED <<sizeVars, svcVars, modelVars, fetchVars, swinVars>>
    /\ UNCHANGED <<compressVars, cleanupVars>>

ReaperNext == \E env \in ReaperEnvs : ShutdownRun(env)

SpecReaper == ReaperInit /\ [][ReaperNext]_vars

(***************************************************************************)
(* The cleanup lambda on its own: runs of lambda_handler over a bucket of  *)
(* up to four objects and a jobs table of one or two scan pages.           *)
(***************************************************************************)
TableJobIds == {"j1", "j2"}
CleanupKeys == {<<"j1", "f1">>, <<"j2", "f1">>, <<"j3", "f1">>, <<"j1">>}
TableJobs == [JobId : TableJobIds, Status : {"COMPLETED", "PROCESSING"},
              expired : BOOLEAN]

\* The jobs table: job ids are unique, and a second page exists only
\* behind a first page that holds a job.
CleanupTables ==
    {<<{}>>} \cup {<<{j}>> : j \in TableJobs}
      \cup {<<{j, k}>> : j \in {t \in TableJobs : t.JobId = "j1"},
                         k \in {t \in TableJobs : t.JobId = "j2"}}
      \cup {<<{j}, {k}>> : j \in {t \in TableJobs : t.JobId = "j1"},
                           k \in {t \in TableJobs : t.JobId = "j2"}}

CleanupEnvs ==
    [scan : BOOLEAN, list_objects : BOOLEAN, delete_objects : BOOLEAN,
     job_cleanup : {{}, {"j1"}}]

CleanupInit ==
    /\ clBucket \in SUBSET CleanupKeys
    /\ clTable \in CleanupTables
    /\ clLast = NoCleanupCall
    /\ CompressIdle
    /\ ReaperIdle
    /\ FetchIdle
    /\ dev = CHOOSE d \in SvcDevices : d.reserved = Num(0)
    /\ SizeIdle
    /\ SvcInit
    /\ ModelInit
    /\ SwinIdle

\* One run of the cleanup lambda.
CleanupRun(env) ==
    /\ LET r == CleanupHandler(clBucket, clTable, env) IN
       /\ clBucket' = r.bucket
       /\ clLast' = [called |-> TRUE, statusCode |-> r.statusCode,
                     before |-> clBucket, orphaned |-> r.orphaned,
                     orphan_deleted |-> r.orphan_deleted,
                     job_deleted |-> r.job_deleted]
    /\ UNCHANGED clTable
    /\ UNCHANGED <<sizeVars, svcVars, modelVars, fetchVars, swinVars>>
    /\ UNCHANGED <<compressVars, reaperVars>>

CleanupNext == \E env \in CleanupEnvs : CleanupRun(env)

SpecCleanup == CleanupInit /\ [][CleanupNext]_vars

(***************************************************************************)
(* Properties of the inference service (Spec)                              *)
(***************************************************************************)
BatchDone == pc = "done" /\ request.kind = "batch"
SingleDone == pc = "done" /\ request.kind = "single"

\* Whether the item at position k failed: its worker raised, or a stage of
\* its pipeline failed.
ItemFailed(k) ==
    \/ ~request.batch[k].has_paths
    \/ FailsAt(request.batch[k], faultOf[k]) # "none"

\* The entries of the response that carry batch_id b.
EntriesFor(b) ==
    {j \in 1..Len(response.result.batch_results) :
        response.result.batch_results[j].batch_id = b}

\* A step of a batch in progress.
BatchStep ==
    \/ LoopHead
    \/ \E k \in 1..MaxBatch : Submit(k)
    \/ \E k \in 1..MaxBatch : WorkerStart(k)
    \/ \E k \in 1..MaxBatch, fault \in BatchFaults : WorkerFinish(k, fault)
    \/ \E k \in 1..MaxBatch : Collect(k)
    \/ EndSubBatch

\* C1: when process_batch returns for a batch of N items (N >= 0), whatever
\* failed and in whatever order the workers completed, batch_results holds
\* exactly N entries, exactly one for each input position, and
\* total_processed is N.
C1_OneResultPerItem ==
    BatchDone =>
        /\ ~response.raised
        /\ Len(response.result.batch_results) = NumItems
        /\ \A k \in 1..NumItems : Cardinality(EntriesFor(k - 1)) = 1
        /\ response.result.total_processed = NumItems

\* A full batch returned with a failed and a successful item, the results
\* not in input order.
C1_Witness ==
    /\ BatchDone
    /\ NumItems = MaxBatch
    /\ Len(results) = MaxBatch
    /\ results[1].batch_id # 0
    /\ \E j \in 1..Len(results) : results[j].status = 500
    /\ \E j \in 1..Len(results) : results[j].status = 200

\* C2: an item that fails (at download, decode, inference, encode or upload,
\* or by an exception out of its worker) is reported as a status-500 entry
\* carrying the batch's job_id, the item's batch_id and an error description;
\* every sibling that did not fail is reported with status 200, in the same
\* and in later sub-batches; process_batch does not raise, and a batch in
\* progress always has a next step.
C2_FailureIsolated ==
    /\ BatchDone =>
        /\ ~response.raised
        /\ \A k \in 1..NumItems :
            \E j \in EntriesFor(k - 1) :
                LET e == response.result.batch_results[j] IN
                IF ItemFailed(k)
                THEN /\ e.status = 500
                     /\ e.job_id = BatchJobId(request)
                     /\ e.error # "absent"
                ELSE e.status = 200
    /\ pc \in {"loop", "submit", "collect"} => ENABLED BatchStep

\* With one item per sub-batch, the first item's worker raised and a later
\* item was processed and reported as a success.
C2_Witness ==
    /\ BatchDone
    /\ batch_size = 1
    /\ NumItems >= 2
    /\ fout[1].raised
    /\ results[1].status = 500
    /\ results[1].error = "exception"
    /\ results[NumItems].status = 200

\* C3: a single-item request that fails at a stage returns status 500 and
\* an error string; a batch request returns top-level status 200 whatever
\* failed, with a status-500 entry for each failed item and a status-200
\* entry for each successful one in the same batch_results list.
C3_FailureStatus ==
    /\ (SingleDone /\ request.batch[1].has_paths
            /\ FailsAt(request.batch[1], faultOf[1]) # "none") =>
        /\ ~response.raised
        /\ response.result.status = 500
        /\ response.result.error # "absent"
    /\ BatchDone =>
        /\ response.result.status = 200
        /\ \A j \in 1..Len(response.result.batch_results) :
            LET e == response.result.batch_results[j] IN
            /\ e.batch_id + 1 \in 1..NumItems
            /\ e.status = IF ItemFailed(e.batch_id + 1) THEN 500 ELSE 200

\* A full batch returned of which every item failed, one of them by an
\* exception and one at a stage.
C3_Witness ==
    /\ BatchDone
    /\ NumItems = MaxBatch
    /\ response.result.status = 200
    /\ \A j \in 1..Len(results) : results[j].status = 500
    /\ \E j \in 1..Len(results) : results[j].error = "exception"
    /\ \E j \in 1..Len(results) : results[j].error = "decode"

TileUnset(input) == ~input.tile_present \/ input.tile_size = 0

\* C10: whenever process_single_image reaches the enhancer on the
\* non-face-enhance path, the tile size it passes is 0 for an unset tile size
\* and max(height, width) <= 1500, 1024 for an unset tile size and
\* max(height, width) > 1500, and the caller's value when that is non-zero.
C10_TilePolicy ==
    \A k \in DOMAIN fout :
        fout[k].enhance.model \in {"realesr_gan", "realesr_gan_anime"} =>
            LET input == request.batch[k]
                tile == fout[k].enhance.tile
                large == input.height > AUTO_TILE_THRESHOLD
                         \/ input.width > AUTO_TILE_THRESHOLD
            IN
            /\ (TileUnset(input) /\ ~large) => tile = 0
            /\ (TileUnset(input) /\ large) => tile = AUTO_TILE_SIZE
            /\ ~TileUnset(input) => tile = input.tile_size

\* A request without tile_size for an image that is large in one dimension
\* only was enhanced with tile size 1024.
C10_Witness ==
    /\ SingleDone
    /\ ~request.batch[1].tile_present
    /\ request.batch[1].height < AUTO_TILE_THRESHOLD
    /\ request.batch[1].width > AUTO_TILE_THRESHOLD
    /\ fout[1].enhance.model = "realesr_gan"
    /\ fout[1].enhance.tile = AUTO_TILE_SIZE

\* C11: a single-item request that carries its path keys, job_id and
\* batch_id gets exactly one result from process_single_image (a dict, not an
\* exception), with status 200 or 500, whose job_id and batch_id are the
\* request's, on the success path and when the download, decode, inference,
\* encode, upload or copy fails.
C11_SingleResultEchoesIds ==
    (SingleDone /\ request.batch[1].has_paths) =>
        /\ ~response.raised
        /\ response.result.status \in {200, 500}
        /\ response.result.status = 500 <=>
                FailsAt(request.batch[1], faultOf[1]) # "none"
        /\ response.result.job_id = request.batch[1].job_id
        /\ response.result.batch_id = request.batch[1].batch_id

\* A request for a local output path returned a failure of the copy onto
\* it, with the request's ids.
C11_Witness ==
    /\ SingleDone
    /\ request.batch[1].has_paths
    /\ request.batch[1].out_kind = "local"
    /\ faultOf[1] = "copy"
    /\ response.result.status = 500
    /\ response.result.error = "copy"
    /\ response.result.batch_id = 3

\* C19: the workers of process_batch that run at the same time touch
\* pairwise distinct files of the image cache directory: no local input or
\* output cache file belongs to two items in flight.
C19_WorkersWriteDistinctFiles ==
    \A j, k \in Running :
        j # k => CacheFilesOf(request.batch[j]) \cap CacheFilesOf(request.batch[k]) = {}

(***************************************************************************)
(* Properties of the model loader (SpecLoader)                             *)
(***************************************************************************)
\* C4: as long as load_model calls follow one another without overlapping,
\* in any order of keys and with model_fn repeated, the load routine of a
\* key has run at most once.
C4_AtMostOneLoadPerKey ==
    ~mOverlap => \A key \in ModelKeys : mloads[key] <= 1

\* C5: two callers resolving the same key are never both past a cache miss
\* for it: one loads, and the other waits for that load.
C5_ResolversSerialized ==
    \A t, u \in Callers :
        (/\ t # u
         /\ caller[t].pc \in {"loading", "store"}
         /\ caller[u].pc \in {"loading", "store"})
        => Head(caller[t].todo) # Head(caller[u].todo)

\* C17: load_model with a model_type it does not know raises on every
\* call: the key is never in the cache, no caller gets past the load body or
\* holds a handle for it, its weights are never loaded and no marker is
\* written for it.
C17_UnknownKindFails ==
    /\ "unknown" \notin CachedKeys
    /\ mloads["unknown"] = 0
    /\ "unknown" \notin markers
    /\ \A t \in Callers :
        /\ caller[t].pc = "store" => Head(caller[t].todo) # "unknown"
        /\ caller[t].handle.key # "unknown"
        /\ \A i \in 1..Len(caller[t].got) : caller[t].got[i].key # "unknown"

\* Two calls for the unknown model_type, one after the other, have both
\* failed.
C17_Witness ==
    /\ ~mOverlap
    /\ mresolves = 2
    /\ \A t \in {1, 2} :
        /\ caller[t].pc = "idle"
        /\ caller[t].got = <<NoHandle>>

(***************************************************************************)
(* Properties of the SwinIR model loader (SpecSwin)                        *)
(***************************************************************************)
\* The last call asked for an unknown variant, or for a known one whose
\* weight file is not in the model directory.
SwinFallbackCase ==
    /\ swLast.called
    /\ swLast.arg # "None"
    /\ swLast.arg \notin SwinVariants \/ swLast.arg \notin swDir

DefaultModel ==
    [variant |-> DEFAULT_MODEL_VARIANT, scale |-> 4, file |-> DEFAULT_MODEL_VARIANT]

C20_DeleteOnlyAfterUpload ==
    lcLast.called =>
        LET k == lcLast.key
            gz == CompressedKey(k)
            ops == lcLast.ops
        IN
        /\ \A i \in 1..Len(ops) :
            ops[i].call = "delete_object" =>
                /\ \E j \in 1..(i - 1) : ops[j] = BucketOp("upload_file", gz)
                /\ lcLast.failed # "upload"
                /\ lcStore[gz].present
                /\ lcStore[gz].enc = "gzip"
                /\ lcStore[gz].data = lcLast.before.data
        /\ lcLast.failed \in {"download", "compress", "upload"} =>
                /\ lcLast.ret = FALSE
                /\ lcStore[k] = lcLast.before
                /\ ops = IF lcLast.failed = "upload"
                         THEN <<BucketOp("download_file", k), BucketOp("upload_file", gz)>>
                         ELSE <<BucketOp("download_file", k)>>
        /\ lcLast.ret = TRUE =>
                /\ lcLast.failed = "none"
                /\ ~lcStore[k].present
                /\ lcStore[gz].present

\* The upload of the compressed file failed for a frame that was in the
\* bucket: the frame is still there.
C20_Witness ==
    /\ lcLast.called
    /\ lcLast.failed = "upload"
    /\ lcLast.before.present
    /\ lcStore[lcLast.key].present
    /\ lcLast.ret = FALSE

(***************************************************************************)
(* Properties of the blob transfer (SpecFetch)                             *)
(***************************************************************************)
\* C6: a download_from_s3 call that finds its local path on disk returns
\* that path and makes no remote call; so a call for a local path that an
\* earlier call fetched from the store with success makes no remote call.
C6_CachedFetchIsLocal ==
    /\ (fetchLast.called /\ fetchLast.hit) =>
        /\ fetchLast.ret = Ret(fetchLast.lp)
        /\ fetchLast.ops = <<>>
    /\ (/\ fetchLast.called
        /\ fetchPrev.called
        /\ fetchPrev.uri.s3
        /\ fetchPrev.ret.kind = "return"
        /\ fetchLast.lp = fetchPrev.lp) =>
        fetchLast.ops = <<>>

\* The same URI was fetched twice into the same local path: the first call
\* went to the store and returned, the second found the file.
C6_Witness ==
    /\ fetchLast.called
    /\ fetchPrev.called
    /\ fetchPrev.uri.s3
    /\ ~fetchPrev.hit
    /\ fetchPrev.ret.kind = "return"
    /\ fetchLast.uri = fetchPrev.uri
    /\ fetchLast.lp = fetchPrev.lp
    /\ fetchLast.hit
    /\ fetchLast.ops = <<>>

\* The calls made by a download.
CallsOf(ops) == {ops[i].call : i \in 1..Len(ops)}

NoRepeat(ops) == \A i, j \in 1..Len(ops) : i # j => ops[i] # ops[j]

\* The last transfer call was a download that went to the object store.
FetchedRemotely ==
    /\ recent[2] = "download"
    /\ fetchLast.called
    /\ fetchLast.uri.s3
    /\ ~fetchLast.hit

\* The remote calls of the last download, on the requested key, that
\* failed: by a fault of the service, or because the object is not there.
\* The probe for the compressed sibling is not among them.
FetchErrors ==
    LET k == Key(fetchLast.uri.name) IN
    (fetchLast.faults \ {"head_gz"})
    \cup {c \in {"head"} : ~store[k].present}
    \cup {c \in {"download"} :
            ~store[k].present /\ "download_file" \in CallsOf(fetchLast.ops)}

\* C12: a download_from_s3 call that meets an error of the remote service
\* on the requested key (the head_object size probe included) raises instead
\* of returning a local path; and neither download_from_s3 nor upload_to_s3
\* makes the same remote call twice in one invocation.
C12_RemoteErrorRaises ==
    /\ (FetchedRemotely /\ FetchErrors # {}) => fetchLast.ret.kind = "raise"
    /\ NoRepeat(fetchLast.ops)
    /\ NoRepeat(upLast.ops)

\* The last transfer call was an upload to the object store with
\* compression on.
UploadedCompressed ==
    /\ recent[2] = "upload"
    /\ upLast.called
    /\ upLast.uri.s3
    /\ useCompression

\* C13: after upload_to_s3 with compression, returning or failing, the
\* temporary file local_path + ".gz" does not exist; and when it returned,
\* the store holds the compressed object under key + ".gz" and the original
\* under key.
C13_CompressedUploadCleansUp ==
    UploadedCompressed =>
        LET k == Key(upLast.uri.name) IN
        /\ files[GzPath(upLast.lp)] = "absent"
        /\ upLast.ret.kind = "return" =>
            /\ store[CompressedKey(k)].present
            /\ store[CompressedKey(k)].enc = "gzip"
            /\ store[CompressedKey(k)].data = files[upLast.lp]
            /\ store[k].present
            /\ store[k].enc = "plain"
            /\ store[k].data = files[upLast.lp]

\* C14: with compression on and the local path not cached, download_from_s3
\* asks for key + ".gz"; when that object is there (a gzip stream) and no
\* remote call fails, it is fetched and its gunzipped bytes are the local
\* file; when it is not there and the original is, the original is
\* downloaded directly; the local path is returned in both cases.
C14_CompressedSiblingPreferred ==
    (FetchedRemotely /\ useCompression /\ fetchLast.faults = {}) =>
        LET k == Key(fetchLast.uri.name)
            gz == CompressedKey(k)
            lp == fetchLast.lp
        IN
        /\ \E i \in 1..Len(fetchLast.ops) :
              fetchLast.ops[i].call = "head_object" /\ fetchLast.ops[i].key = gz
        /\ (store[gz].present /\ store[gz].enc = "gzip") =>
              /\ fetchLast.ret = Ret(lp)
              /\ files[lp] = store[gz].data
              /\ "get_object" \in CallsOf(fetchLast.ops)
              /\ "download_file" \notin CallsOf(fetchLast.ops)
        /\ (~store[gz].present /\ store[k].present) =>
              /\ fetchLast.ret = Ret(lp)
              /\ files[lp] = store[k].data
              /\ "get_object" \notin CallsOf(fetchLast.ops)
              /\ \E i \in 1..Len(fetchLast.ops) :
                    fetchLast.ops[i].call = "download_file" /\ fetchLast.ops[i].key = k

\* An image whose compressed sibling holds other bytes than the original
\* was fetched: the local file holds the sibling's bytes.
C14_Witness ==
    /\ FetchedRemotely
    /\ useCompression
    /\ fetchLast.faults = {}
    /\ fetchLast.uri = S3Uri("img1")
    /\ store[Key("img1")].present
    /\ store[Key("img1")].data = "A"
    /\ store[CompressedKey(Key("img1"))].enc = "gzip"
    /\ store[CompressedKey(Key("img1"))].data = "B"
    /\ fetchLast.ret = Ret(fetchLast.lp)
    /\ files[fetchLast.lp] = "B"

\* An upload with compression returned and the next transfer call fetched
\* the same URI into a local path that was not cached, no remote call
\* failing.
RoundTrip ==
    /\ useCompression
    /\ recent = <<"upload", "download">>
    /\ upLast.uri.s3
    /\ upLast.ret.kind = "return"
    /\ fetchLast.uri = upLast.uri
    /\ ~fetchLast.hit
    /\ fetchLast.faults = {}

\* C15: a file stored by upload_to_s3 with compression and then fetched
\* from the same URI by download_from_s3 with compression into a local path
\* that is not cached comes back through the compressed sibling, the local
\* file holding the bytes of the file that was uploaded.
C15_CompressionRoundTrip ==
    RoundTrip =>
        /\ fetchLast.ret = Ret(fetchLast.lp)
        /\ "get_object" \in CallsOf(fetchLast.ops)
        /\ "download_file" \notin CallsOf(fetchLast.ops)
        /\ files[fetchLast.lp] = files[upLast.lp]

\* A file of other bytes than the store held under the key, for the
\* original and for its sibling, made the round trip.
C15_Witness ==
    /\ RoundTrip
    /\ upLast.uri = S3Uri("img1")
    /\ files[upLast.lp] = "empty"
    /\ files[fetchLast.lp] = "empty"
    /\ fetchLast.lp # upLast.lp

\* C16: download_from_s3 given an input that is not an s3:// URI returns
\* the input and makes no remote call, whether its local path exists or not.
C16_LocalInputPassesThrough ==
    (fetchLast.called /\ ~fetchLast.uri.s3) =>
        /\ fetchLast.ret = Ret(fetchLast.uri.name)
        /\ fetchLast.ops = <<>>

(***************************************************************************)
(* Properties of batch admission (SpecSize)                                *)
(***************************************************************************)
Numeric(r) == r.kind = "num"

\* Readings of a device as the allocator reports them: numbers, the
\* allocated memory part of the reserved memory, the reserved memory part of
\* the total.
Plausible(total, reserved, allocated) ==
    /\ Numeric(total) /\ Numeric(reserved) /\ Numeric(allocated)
    /\ 0 <= allocated.val
    /\ allocated.val <= reserved.val
    /\ reserved.val <= total.val

\* clamp(floor(0.8 * free / 500 MiB), 1, 16)
ClampedBatchSize(free) ==
    LET q == (free * 8) \div (10 * MEMORY_PER_IMAGE) IN
    IF q < 1 THEN 1 ELSE IF q > MAX_BATCH_SIZE THEN MAX_BATCH_SIZE ELSE q

\* C7: determine_optimal_batch_size returns a value in 1..16 on an
\* accelerator, and exactly 4 without an accelerator or when one of the
\* total, reserved or allocated readings is unavailable, not a number, or
\* raises.
C7_SizeInRangeOrDefault ==
    szLast.called =>
        /\ szLast.result \in 1..MAX_BATCH_SIZE
        /\ dev.available # "yes" => szLast.result = 4
        /\ (\/ ~Numeric(dev.total)
            \/ ~Numeric(dev.reserved)
            \/ ~Numeric(dev.allocated)) => szLast.result = 4

\* C8: on an accelerator the batch size is clamp(floor(0.8 * free / 500
\* MiB), 1, 16), free being the total memory minus the memory in use (the
\* reserved memory, or the reserved and the allocated memory).
C8_SizeFromFreeMemory ==
    (/\ szLast.called
     /\ dev.available = "yes"
     /\ Plausible(dev.total, dev.reserved, dev.allocated)) =>
        szLast.result \in
            {ClampedBatchSize(dev.total.val - dev.reserved.val),
             ClampedBatchSize(dev.total.val - dev.reserved.val - dev.allocated.val)}

\* C9: of two calls on one accelerator, the later one seeing no less memory
\* reserved and no less allocated (so no more free), the later call returns
\* no larger a batch size.
C9_SizeMonotone ==
    (/\ szPrev.called
     /\ szLast.called
     /\ dev.available = "yes"
     /\ Plausible(dev.total, szPrev.reserved, szPrev.allocated)
     /\ Plausible(dev.total, szLast.reserved, szLast.allocated)
     /\ szLast.reserved.val >= szPrev.reserved.val
     /\ szLast.allocated.val >= szPrev.allocated.val) =>
        szLast.result <= szPrev.result

(***************************************************************************)
(* Properties of the shutdown lambda (SpecReaper)                          *)
(***************************************************************************)
\* An endpoint has an active job when some item of the jobs table, on any
\* of its pages, is PROCESSING or INITIATED and refers to it.
EndpointHasActiveJob(n) ==
    \E j \in AllItems(rpTable) :
        j.status \in ACTIVE_JOB_STATUSES /\ j.endpoint = n

\* C21: every endpoint on which a run of the shutdown lambda calls
\* delete_endpoint was InService, did not carry the exclude tag with the
\* value 'true', was idle by the invocation metric and had no job in status
\* PROCESSING or INITIATED referring to it.
C21_DeleteOnlyIdleUnprotected ==
    rpLast.called =>
        \A i \in 1..Len(rpLast.calls) :
            LET n == rpLast.calls[i]
                ep == rpLast.before[n]
            IN /\ ep.status = "InService"
               /\ ep.tag # EXCLUDE_TAG_VALUE
               /\ IsEndpointIdle(ep)
               /\ ~EndpointHasActiveJob(n)

(***************************************************************************)
(* Properties of the cleanup lambda (SpecCleanup)                          *)
(***************************************************************************)
\* C22: the objects a run of the cleanup lambda deletes as orphaned are
\* exactly the objects of the bucket whose first key part is the id of no
\* job of the jobs table; an object of a job of the table is never among
\* them.
C22_OrphansAreJobless ==
    (clLast.called /\ clLast.statusCode = 200) =>
        clLast.orphaned =
            {key \in clLast.before :
                LeadingSegment(key) \notin {j.JobId : j \in AllItems(clTable)}}

(***************************************************************************)
(* Order of work in process_batch (Spec)                                   *)
(***************************************************************************)
\* The sub-batch (counted from 0) that the item at position k belongs to.
SubBatchIndex(k) == (k - 1) \div batch_size

\* C23: while process_batch runs, an item of a later sub-batch has been
\* submitted (or started) only when every item of every earlier sub-batch
\* has completed and its result has been collected into the results.
C23_SubBatchesInTurn ==
    request.kind = "batch" =>
        \A j, k \in 1..NumItems :
            (SubBatchIndex(j) < SubBatchIndex(k) /\ fstate[k] # "none") =>
                /\ fstate[j] = "collected"
                /\ \E r \in 1..Len(results) : results[r].batch_id = j - 1

\* The third item of a batch runs in the second sub-batch, the two items of
\* the first sub-batch collected.
C23_Witness ==
    /\ request.kind = "batch"
    /\ NumItems = 3
    /\ batch_size = 2
    /\ fstate[3] = "running"
    /\ fstate[1] = "collected"
    /\ fstate[2] = "collected"
    /\ Len(results) = 2

\* C26: in the response of process_batch for N items, the N results carry
\* the batch_id values 0..N-1, each once, and the result carrying batch_id
\* p-1 is the outcome of the item at input position p, so that sorting by
\* batch_id gives the results in input order.
C26_BatchIdsArePositions ==
    (pc = "done" /\ request.kind = "batch") =>
        LET out == response.result.batch_results IN
        /\ Len(out) = NumItems
        /\ \A p \in 1..NumItems :
              \E r \in 1..Len(out) :
                 /\ out[r].batch_id = p - 1
                 /\ out[r] = IF fout[p].raised
                             THEN WorkerErrorResult(BatchJobId(request), p - 1)
                             ELSE fout[p].ret
                 /\ \A q \in 1..Len(out) : out[q].batch_id = p - 1 => q = r

\* A batch of three items in sub-batches of two, returned with the results
\* out of input order, one item failed by an exception of its worker, one
\* failed with an error result, one done.
C26_Witness ==
    /\ pc = "done"
    /\ request.kind = "batch"
    /\ NumItems = 3
    /\ batch_size = 2
    /\ response.result.batch_results[1].batch_id = 1
    /\ \E p \in 1..3 : fout[p].raised
    /\ \E p \in 1..3 : ~fout[p].raised /\ fout[p].ret.status = 500
    /\ \E p \in 1..3 : ~fout[p].raised /\ fout[p].ret.status = 200

\* C25: a batch request whose batch holds exactly one item is executed
\* inline on the calling thread: no executor is created for it (the handler
\* never stands at a submit or an as_completed loop) and the item is never
\* handed to a pool (it is never queued, run or finished as a future).
C25_SingleItemBatchInline ==
    (request.kind = "batch" /\ NumItems = 1) =>
        /\ pc \notin {"submit", "collect"}
        /\ fstate[1] \in {"none", "inline"}

(***************************************************************************)
(* The worker pool of process_batch (SpecPool)                             *)
(***************************************************************************)
\* The items handed to the executor of the current sub-batch and not yet
\* collected.
InPool == {k \in 1..NumItems : fstate[k] \in {"queued", "running", "done"}}

PoolWithinBounds ==
    request.kind = "batch" =>
        /\ Cardinality(Running) <= Min(Cardinality(SubBatch), MAX_CONCURRENCY)
        /\ Cardinality(SubBatch) <= batch_size
        /\ InPool \subseteq SubBatch
        /\ pc = "done" => \A k \in 1..NumItems : fstate[k] = "collected"

\* A step submits at most one item, and never an item submitted before.
SubmitsOnce ==
    (request.kind = "batch" /\ request' = request) =>
        /\ Cardinality({k \in 1..NumItems : fstate[k] = "none" /\ fstate'[k] # "none"}) <= 1
        /\ \A k \in 1..NumItems :
              /\ fstate'[k] = "queued" => fstate[k] \in {"none", "queued"}
              /\ fstate[k] # "none" => fstate'[k] # "none"

\* C24: at every moment of process_batch the items being processed at once
\* number at most min(size of the current sub-batch, MAX_CONCURRENCY), a
\* sub-batch holds at most batch_size items, and each item is submitted to
\* the executor exactly once (once by the time the batch returns, and never
\* again).
C24_PoolBounds == []PoolWithinBounds /\ [][SubmitsOnce]_vars

\* The executor is saturated: MAX_CONCURRENCY workers run and an item of
\* the same sub-batch waits in the queue.
C24_Witness ==
    /\ request.kind = "batch"
    /\ Cardinality(Running) = MAX_CONCURRENCY
    /\ Cardinality(SubBatch) > MAX_CONCURRENCY
    /\ Queued # {}

(***************************************************************************)
(* The transfer strategy of download_from_s3 and upload_to_s3 (SpecStore)  *)
(***************************************************************************)
\* The calls of ops that move the bytes of a file.
TransferOps(ops) ==
    {ops[i] : i \in {j \in 1..Len(ops) :
                        ops[j].call \in {"download_file", "get_object", "upload_file"}}}

\* C27: a download_from_s3 call that goes to the object store moves the
\* bytes with the multipart configuration exactly when the size of the
\* remote object named by the URI exceeds MULTIPART_THRESHOLD, and in one
\* shot otherwise; an upload_to_s3 call that returned made each of its
\* uploads with the multipart configuration exactly when the size of the
\* local file exceeds the threshold, with and without compression.
C27_MultipartBySize ==
    /\ (recent[2] = "download" /\ fetchLast.called /\ ~fetchLast.hit
            /\ fetchLast.uri.s3) =>
          \A op \in TransferOps(fetchLast.ops) :
              op.multipart =
                  (store[Key(fetchLast.uri.name)].size > MULTIPART_THRESHOLD)
    /\ (recent[2] = "upload" /\ upLast.called /\ upLast.uri.s3
            /\ upLast.ret.kind = "return") =>
          \A op \in TransferOps(upLast.ops) :
              op.multipart =
                  (store[Key(upLast.uri.name)].size > MULTIPART_THRESHOLD)

(***************************************************************************)
(* Properties of the SwinIR predict_fn (SpecSwinPredict)                   *)
(***************************************************************************)
\* C28: when the SwinIR predict_fn returns for a list of N >= 2 items, it
\* returns a list of exactly N results, one for each input item, whatever
\* failed in the items, in the pool or in the submits.
C28_SwinOneResultPerItem ==
    (spc = "done" /\ Len(spBatch) >= 2) =>
        /\ ~spResponse.raised
        /\ spResponse.kind = "list"
        /\ Len(spResponse.value) = Len(spBatch)

(***************************************************************************)
(* The cache file after a failed download (SpecFetch)                      *)
(***************************************************************************)
\* C29: a download_from_s3 call that went past its cache check and raised
\* leaves no file at its local path; and a call that follows a failed call
\* for the same URI and local path is not answered from the cache.
C29_FailedFetchLeavesNoFile ==
    /\ (fetchLast.called /\ ~fetchLast.hit /\ fetchLast.ret.kind = "raise") =>
            files[fetchLast.lp] = "absent"
    /\ (/\ fetchPrev.called /\ ~fetchPrev.hit /\ fetchPrev.ret.kind = "raise"
        /\ fetchLast.called
        /\ fetchLast.uri = fetchPrev.uri
        /\ fetchLast.lp = fetchPrev.lp) => ~fetchLast.hit

(***************************************************************************)
(* The input cache of process_single_image (SpecInputCache)                *)
(***************************************************************************)
\* C30: the file that the download step of process_single_image hands to
\* the decoder for an s3 input holds the bytes of the object named by the
\* request's input URI; and two requests with different input URIs do not
\* use the same local input path.
C30_InputBytesAreOfTheUri ==
    /\ (fetchLast.called /\ fetchLast.uri.s3 /\ fetchLast.ret.kind = "return") =>
            files[fetchLast.lp] = store[Key(fetchLast.uri.name)].data
    /\ (fetchPrev.called /\ fetchLast.called /\ fetchPrev.uri # fetchLast.uri) =>
            fetchPrev.lp # fetchLast.lp

====
